---- MODULE Spec2Model ----
(***************************************************************************)
(* brain-cli: the BWT (Brain Write Transaction) engine, its validator and  *)
(* the index artifacts it maintains (records.jsonl, manifest.json,         *)
(* records_digest.txt) together with the document tree.                    *)
(*                                                                         *)
(* Representation.  A text (title, summary, reason, digest file) is a      *)
(* sequence of tokens; NL is the newline character and SEP the three       *)
(* characters " | ".  A document's content is a string.  A hash is the     *)
(* pair <<"sha256:", bytes>>: SHA-256 is taken to be collision free.       *)
(* JavaScript's undefined and null are the sentinels UndefS (in string     *)
(* valued fields) and UndefT / NullT (in sequence valued fields).          *)
(***************************************************************************)
EXTENDS Integers, Sequences, FiniteSets, TLC

\* ---------------------------------------------------------------- bounds
MaxCommits == 2
MaxIdCommits == 3
MaxRefCommits == 3
MaxStatusCommits == 3
MaxClock == 1
MaxFaults == 1

\* ------------------------------------------------------------- sentinels
UndefS == "undefined"
UndefT == <<"undefined">>
NullT == <<"null">>
Absent == <<>>
NL == "\n"
SEP == " | "
COMMA == ","

\* ------------------------------------------------------ schema constants
SCOPE_TYPES == {"project", "agent", "user", "topic"}
RECORD_TYPES == {"rule", "decision", "profile", "log", "ref", "note", "candidate", "reminder", "project_state"}
SOURCE_TYPES == {"user_confirmed", "candidate", "chat_log", "external_doc", "inference"}
STATUS_VALUES == {"active", "deprecated", "archived"}
INTENT_ACTIONS == {"create", "update", "delete", "deprecate"}
RECORD_FIELDS == {"recordId", "scopeType", "scopeId", "type", "title", "summary", "tags", "sourceType", "sourceRef", "status", "replacedBy", "deprecationReason", "updatedAt", "contentHash"}
MaxSeqDigits == 9999

SCOPE_ABBREV(scopeType) ==
  CASE scopeType = "project" -> "proj"
    [] scopeType = "agent" -> "agent"
    [] scopeType = "user" -> "user"
    [] scopeType = "topic" -> "topic"
    [] OTHER -> UndefS

\* --------------------------------------------------------- document tree
DocA == "30_topics/a/n.md"
DocU == "00_user/n.md"
Paths == {DocA, DocU}
\* a document whose parent folder does not exist yet and is not under 30_topics
DocP == "10_projects/p/n.md"
\* a document of topic a whose file name spells a record id
DocR == "30_topics/a/rec_topic_a_0_0001.md"

Dirname(p) ==
  CASE p = DocA -> "30_topics/a"
    [] p = DocU -> "00_user"
    [] p = DocP -> "10_projects/p"
    [] p = DocR -> "30_topics/a"
    [] OTHER -> "."

InitDirs == {"00_user", "10_projects", "20_agents", "30_topics", "90_index", "99_policy"}

RecordsFile == "90_index/records.jsonl"
ManifestFile == "90_index/manifest.json"
DigestFile == "90_index/records_digest.txt"
IdxFiles == {RecordsFile, ManifestFile, DigestFile}
PolicyFile == "99_policy/brainPolicy.md"
FileIds == IdxFiles \cup Paths \cup {DocP, DocR, PolicyFile}

NoRecord == [none |-> TRUE]

\* ------------------------------------------------------------- utilities
Truthy(s) == s # UndefS /\ s # ""

TruthyT(t) == t # UndefT /\ t # NullT /\ t # <<>>

CalculateHashFromString(content) == <<"sha256:", content>>

CalculateHash(bytes) == <<"sha256:", bytes>>

Size(content) == IF content = "" THEN 0 ELSE 1

DayLen == 1

DateStr(t) == t \div DayLen

\* mutant: the largest suffix is taken over every id, whatever its prefix
RECURSIVE MaxSeqAnyPrefix(_, _, _)
MaxSeqAnyPrefix(existingRecords, prefix, acc) ==
  IF existingRecords = <<>> THEN acc
  ELSE LET id == Head(existingRecords).recordId
           hit == Len(id) = 5 /\ id[5] > acc
       IN MaxSeqAnyPrefix(Tail(existingRecords), prefix, IF hit THEN id[5] ELSE acc)

RECURSIVE MaxSeq(_, _, _)
MaxSeq(existingRecords, prefix, acc) ==
  IF existingRecords = <<>> THEN acc
  ELSE LET id == Head(existingRecords).recordId
           hit == Len(id) = 5 /\ SubSeq(id, 1, 4) = prefix /\ id[5] > acc
       IN MaxSeq(Tail(existingRecords), prefix, IF hit THEN id[5] ELSE acc)

GenerateRecordId(scopeType, scopeId, existingRecords, t) ==
  LET prefix == <<"rec", SCOPE_ABBREV(scopeType), scopeId, DateStr(t)>>
  IN Append(prefix, MaxSeq(existingRecords, prefix, 0) + 1)

RECURSIVE JoinTokens(_, _)
JoinTokens(items, sep) ==
  IF items = <<>> THEN <<>>
  ELSE IF Len(items) = 1 THEN <<items[1]>>
  ELSE <<items[1], sep>> \o JoinTokens(Tail(items), sep)

IdStr(recordId) == ToString(recordId)

GenerateDigestLine(record) ==
  <<IdStr(record.recordId), SEP>> \o record.title \o <<SEP>> \o record.summary
    \o <<SEP>> \o JoinTokens(record.tags, COMMA) \o <<SEP, record.status>>

\* ------------------------------------------------------ schemas.js
HasFields(record) == RECORD_FIELDS \subseteq DOMAIN record

BadSlug == "Not A Slug"

RecordIdRegexOk(id) ==
  /\ Len(id) = 5
  /\ id[1] = "rec"
  /\ id[2] \in {"proj", "agent", "user", "topic"}
  /\ id[3] \notin {BadSlug, "", UndefS}
  /\ id[5] \in 0..MaxSeqDigits

\* mutant: a deprecated record is accepted whatever its replacedBy
DeprecatedRuleSkipped(record) == record.status = "deprecated" => TRUE

DeprecatedRuleOk(record) ==
  ~(record.status = "deprecated" /\ (record.replacedBy = NullT \/ record.replacedBy = UndefT))

ObsoleteRuleOk(record) ==
  ~(record.replacedBy = <<"obsolete">> /\ ~TruthyT(record.deprecationReason))

ValidateRecord(record) ==
  /\ HasFields(record)
  /\ RecordIdRegexOk(record.recordId)
  /\ record.scopeType \in SCOPE_TYPES
  /\ record.type \in RECORD_TYPES
  /\ record.sourceType \in SOURCE_TYPES
  /\ record.status \in STATUS_VALUES
  /\ record.tags # UndefT
  /\ DeprecatedRuleOk(record)
  /\ ObsoleteRuleOk(record)
  /\ (TruthyT(record.contentHash) => record.contentHash[1] = "sha256:")

RecField(rec, k, dflt) == IF k \in DOMAIN rec THEN rec[k] ELSE dflt

ValidateIntent(intent) ==
  /\ intent.action \in INTENT_ACTIONS
  /\ CASE intent.action = "create" ->
            /\ intent.record # NoRecord
            /\ Truthy(intent.sourceRef)
            /\ intent.content # UndefS
            /\ Truthy(RecField(intent.record, "scopeType", UndefS))
            /\ Truthy(RecField(intent.record, "scopeId", UndefS))
            /\ Truthy(RecField(intent.record, "type", UndefS))
            /\ TruthyT(RecField(intent.record, "title", UndefT))
            /\ Truthy(RecField(intent.record, "sourceType", UndefS))
       [] intent.action = "update" -> TruthyT(intent.recordId)
       [] intent.action = "delete" -> TruthyT(intent.recordId)
       [] intent.action = "deprecate" ->
            /\ TruthyT(intent.recordId)
            /\ intent.replacedBy # UndefT

\* ------------------------------------------------------------ bwt.js
\* The engine works on s: the disk (disk, diskTmp = the X.tmp files,
\* diskBak = the X.bak files, dirs) and its own fields bakFiles, tmpFiles.
\* err is the step of the error thrown so far ("" when none).
Exists(store, f) == store[f] # Absent

Content(store, f) == store[f][1]

Throw(s, step) == [s EXCEPT !.err = step]

\* the content of a file that is not JSON
Garbage == [garbage |-> TRUE]

SafeReadJson(store, f) ==
  IF Exists(store, f) /\ Content(store, f) # Garbage
  THEN [ok |-> TRUE, data |-> Content(store, f)]
  ELSE [ok |-> FALSE, data |-> Garbage]

\* mutant: the residue check looks for .bak files instead of .tmp files
CheckResidualBak(s) == \E f \in IdxFiles : Exists(s.diskBak, f)

CheckResidualTmp(s) == \E f \in IdxFiles : Exists(s.diskTmp, f)

ParseIntent(s, intent, t) ==
  IF intent.action = "create"
  THEN [intent EXCEPT !.recordId =
          GenerateRecordId(intent.record.scopeType, intent.record.scopeId,
                           Content(s.disk, RecordsFile), t)]
  ELSE intent

GetAffectedFiles(s, parsed) ==
  <<RecordsFile, ManifestFile, DigestFile>> \o
    (IF Truthy(parsed.sourceRef) /\ parsed.action \in {"update", "delete"}
        /\ Exists(s.disk, parsed.sourceRef)
     THEN <<parsed.sourceRef>> ELSE <<>>)

RECURSIVE BackupAll(_, _)
BackupAll(s, targets) ==
  IF targets = <<>> THEN s
  ELSE LET f == Head(targets)
           s1 == IF Exists(s.disk, f)
                 THEN [s EXCEPT !.diskBak[f] = s.disk[f], !.bakFiles = Append(@, f)]
                 ELSE s
       IN BackupAll(s1, Tail(targets))

CreateBackups(s, parsed) ==
  IF s.err # "" THEN s ELSE BackupAll(s, GetAffectedFiles(s, parsed))

EnsureFolders(s, parsed) ==
  IF s.err # "" THEN s ELSE
    IF parsed.action = "create" /\ Truthy(parsed.sourceRef)
    THEN [s EXCEPT !.dirs = @ \cup {Dirname(parsed.sourceRef)}]
    ELSE s

\* mutant: the document is written over the original instead of X.tmp
WriteDocumentInPlace(s, parsed) ==
  IF s.err # "" THEN s ELSE
    IF parsed.action \in {"create", "update"} /\ parsed.content # UndefS /\ Truthy(parsed.sourceRef)
    THEN LET s1 == [s EXCEPT !.tmpFiles = Append(@, parsed.sourceRef)]
         IN IF Dirname(parsed.sourceRef) \in s.dirs
            THEN [s1 EXCEPT !.disk[parsed.sourceRef] = <<parsed.content>>]
            ELSE Throw(s1, "4")
    ELSE s

WriteDocumentTmp(s, parsed) ==
  IF s.err # "" THEN s ELSE
    IF parsed.action \in {"create", "update"} /\ parsed.content # UndefS /\ Truthy(parsed.sourceRef)
    THEN LET s1 == [s EXCEPT !.tmpFiles = Append(@, parsed.sourceRef)]
         IN IF Dirname(parsed.sourceRef) \in s.dirs
            THEN [s1 EXCEPT !.diskTmp[parsed.sourceRef] = <<parsed.content>>]
            ELSE Throw(s1, "4")
    ELSE s

FindIndex(records, recordId) ==
  IF \E i \in 1..Len(records) : records[i].recordId = recordId
  THEN CHOOSE i \in 1..Len(records) :
         /\ records[i].recordId = recordId
         /\ \A j \in 1..(i - 1) : records[j].recordId # recordId
  ELSE 0

ApplyPatch(record, patch) ==
  IF patch = NoRecord THEN record
  ELSE [k \in (DOMAIN record) \cup (DOMAIN patch) |->
          IF k \in DOMAIN patch THEN patch[k] ELSE record[k]]

\* mutant: falsy content is given the placeholder hash without looking at
\* the staged document
NewRecordEmptyHash(s, parsed, t) ==
  [recordId |-> parsed.recordId,
   scopeType |-> parsed.record.scopeType,
   scopeId |-> parsed.record.scopeId,
   type |-> parsed.record.type,
   title |-> parsed.record.title,
   summary |-> IF TruthyT(RecField(parsed.record, "summary", UndefT)) THEN parsed.record.summary ELSE <<>>,
   tags |-> IF RecField(parsed.record, "tags", UndefT) \in {UndefT, NullT} THEN <<>> ELSE parsed.record.tags,
   sourceType |-> parsed.record.sourceType,
   sourceRef |-> IF Truthy(parsed.sourceRef) THEN parsed.sourceRef ELSE "",
   status |-> "active",
   replacedBy |-> NullT,
   deprecationReason |-> NullT,
   updatedAt |-> t,
   contentHash |->
     IF Truthy(parsed.content) THEN CalculateHashFromString(parsed.content)
     ELSE <<"sha256:", "empty">>]

NewRecord(s, parsed, t) ==
  [recordId |-> parsed.recordId,
   scopeType |-> parsed.record.scopeType,
   scopeId |-> parsed.record.scopeId,
   type |-> parsed.record.type,
   title |-> parsed.record.title,
   summary |-> IF TruthyT(RecField(parsed.record, "summary", UndefT)) THEN parsed.record.summary ELSE <<>>,
   tags |-> IF RecField(parsed.record, "tags", UndefT) \in {UndefT, NullT} THEN <<>> ELSE parsed.record.tags,
   sourceType |-> parsed.record.sourceType,
   sourceRef |-> IF Truthy(parsed.sourceRef) THEN parsed.sourceRef ELSE "",
   status |-> "active",
   replacedBy |-> NullT,
   deprecationReason |-> NullT,
   updatedAt |-> t,
   contentHash |->
     IF Truthy(parsed.content) THEN CalculateHashFromString(parsed.content)
     ELSE IF Truthy(parsed.sourceRef) /\ Exists(s.diskTmp, parsed.sourceRef)
          THEN CalculateHash(Content(s.diskTmp, parsed.sourceRef))
          ELSE <<"sha256:", "empty">>]

\* mutant: the splice drops the last record
RemoveAtEnd(seq, i) == SubSeq(seq, 1, Len(seq) - 1)

RemoveAt(seq, i) == SubSeq(seq, 1, i - 1) \o SubSeq(seq, i + 1, Len(seq))

UpdateRecordsTmp(s, parsed, t) ==
  IF s.err # "" THEN s ELSE
    LET records == Content(s.disk, RecordsFile)
        idx == FindIndex(records, parsed.recordId)
        stage(rs) == [s EXCEPT !.tmpFiles = Append(@, RecordsFile), !.diskTmp[RecordsFile] = <<rs>>]
    IN CASE parsed.action = "create" -> stage(Append(records, NewRecord(s, parsed, t)))
         [] parsed.action = "update" ->
              IF idx = 0 THEN Throw(s, "5")
              ELSE LET r1 == ApplyPatch(records[idx], parsed.record)
                       r2 == IF Truthy(parsed.content)
                             THEN [r1 EXCEPT !.contentHash = CalculateHashFromString(parsed.content)]
                             ELSE r1
                   IN stage([records EXCEPT ![idx] = [r2 EXCEPT !.updatedAt = t]])
         [] parsed.action = "deprecate" ->
              IF idx = 0 THEN Throw(s, "5")
              ELSE stage([records EXCEPT ![idx] =
                     [@ EXCEPT !.status = "deprecated",
                               !.replacedBy = parsed.replacedBy,
                               !.deprecationReason =
                                  IF TruthyT(parsed.deprecationReason) THEN parsed.deprecationReason ELSE NullT,
                               !.updatedAt = t]])
         [] parsed.action = "delete" ->
              IF idx = 0 THEN Throw(s, "5") ELSE stage(RemoveAt(records, idx))

Categorize(sourceRef) ==
  CASE sourceRef = DocU -> "user"
    [] sourceRef = DocA -> "topic"
    [] sourceRef = DocR -> "topic"
    [] sourceRef = DocP -> "project"
    [] OTHER -> "other"

ComputeSummary(files) ==
  [totalFiles |-> Len(files),
   byCategory |-> [c \in {"policy", "user", "project", "agent", "topic", "index"} |->
                     Cardinality({i \in 1..Len(files) : files[i].category = c})]]

FirstEntry(files, path) ==
  IF \E i \in 1..Len(files) : files[i].path = path
  THEN CHOOSE i \in 1..Len(files) :
         /\ files[i].path = path
         /\ \A j \in 1..(i - 1) : files[j].path # path
  ELSE 0

RECURSIVE FilterOut(_, _)
FilterOut(files, path) ==
  IF files = <<>> THEN <<>>
  ELSE IF Head(files).path = path THEN FilterOut(Tail(files), path)
  ELSE <<Head(files)>> \o FilterOut(Tail(files), path)

UpdateManifestTmp(s, parsed, t) ==
  IF s.err # "" THEN s ELSE
    LET read == SafeReadJson(s.disk, ManifestFile)
        data == IF read.ok THEN read.data ELSE [files |-> <<>>]
        ref == parsed.sourceRef
        staged == Truthy(ref) /\ Exists(s.diskTmp, ref)
        e == FirstEntry(data.files, ref)
        files ==
          IF parsed.action = "create" /\ Truthy(ref)
          THEN Append(data.files,
                 [path |-> ref,
                  hash |-> IF staged THEN CalculateHash(Content(s.diskTmp, ref))
                           ELSE CalculateHashFromString(IF Truthy(parsed.content) THEN parsed.content ELSE ""),
                  size |-> IF staged THEN Size(Content(s.diskTmp, ref))
                           ELSE Size(IF Truthy(parsed.content) THEN parsed.content ELSE ""),
                  updatedAt |-> t,
                  category |-> Categorize(ref)])
          ELSE IF parsed.action = "update" /\ Truthy(ref)
          THEN IF e = 0 THEN data.files
               ELSE [data.files EXCEPT ![e] =
                       [@ EXCEPT !.hash = IF staged THEN CalculateHash(Content(s.diskTmp, ref)) ELSE @,
                                 !.size = IF staged THEN Size(Content(s.diskTmp, ref)) ELSE @,
                                 !.updatedAt = t]]
          ELSE IF parsed.action = "delete" /\ Truthy(ref)
          THEN FilterOut(data.files, ref)
          ELSE data.files
    IN [s EXCEPT !.tmpFiles = Append(@, ManifestFile),
                 !.diskTmp[ManifestFile] =
                    <<[files |-> files, updatedAt |-> t, summary |-> ComputeSummary(files)]>>]

H1 == "# Brain records_digest.txt"
H2 == "# Format: recordId | title | summary | tags | status"
H3 == "# Auto-generated by brain-cli BWT. Do not edit manually."
Header == <<H1, NL, H2, NL, H3, NL>>

RECURSIVE JoinLines(_)
JoinLines(lines) ==
  IF lines = <<>> THEN <<>>
  ELSE IF Len(lines) = 1 THEN lines[1]
  ELSE lines[1] \o <<NL>> \o JoinLines(Tail(lines))

ReadJsonl(store, f) == IF Exists(store, f) THEN Content(store, f) ELSE <<>>

\* mutant: the document's .tmp is tracked after the index files, so that it
\* is renamed last
UpdateDigestTmpDocLast(s, parsed) ==
  IF s.err # "" THEN s ELSE
    LET records == ReadJsonl(s.diskTmp, RecordsFile)
        lines == [i \in 1..Len(records) |-> GenerateDigestLine(records[i])]
    IN [s EXCEPT !.tmpFiles = SelectSeq(Append(s.tmpFiles, DigestFile), LAMBDA f : f \in IdxFiles)
                                \o SelectSeq(s.tmpFiles, LAMBDA f : f \notin IdxFiles),
                 !.diskTmp[DigestFile] =
                    <<Header \o JoinLines(lines) \o (IF Len(lines) > 0 THEN <<NL>> ELSE <<>>)>>]

UpdateDigestTmp(s, parsed) ==
  IF s.err # "" THEN s ELSE
    LET records == ReadJsonl(s.diskTmp, RecordsFile)
        lines == [i \in 1..Len(records) |-> GenerateDigestLine(records[i])]
    IN [s EXCEPT !.tmpFiles = Append(@, DigestFile),
                 !.diskTmp[DigestFile] =
                    <<Header \o JoinLines(lines) \o (IF Len(lines) > 0 THEN <<NL>> ELSE <<>>)>>]

\* ------------------------------------------------------- validate.js
\* validate(brainRoot, {tmpMode: true}).  The four required files
\* (policy, manifest, tags, folder registry) are written by init and are
\* touched by no operation of the model apart from the policy document and
\* the manifest, so check 3 always passes.
\* mutant: the duplicate filter never reports an id
HasDupesNever(records) ==
  \E i \in 1..Len(records) : records[i].recordId \notin {records[j].recordId : j \in 1..Len(records)}

HasDupes(records) ==
  \E i, j \in 1..Len(records) : i # j /\ records[i].recordId = records[j].recordId

\* mutant: the files of the manifest entries are not hashed
ManifestEntryUnchecked(s, entry) == TRUE

ManifestEntryOk(s, entry) ==
  LET store == IF Exists(s.diskTmp, entry.path) THEN s.diskTmp ELSE s.disk
  IN /\ Exists(store, entry.path)
     /\ CalculateHash(Content(store, entry.path)) = entry.hash

ValidateTmp(s) ==
  LET records == ReadJsonl(s.diskTmp, RecordsFile)
  IN /\ Exists(s.disk, PolicyFile)
     /\ Exists(s.disk, ManifestFile)
     /\ \A i \in 1..Len(records) : ValidateRecord(records[i])
     /\ ~HasDupes(records)
     /\ SafeReadJson(s.diskTmp, ManifestFile).ok =>
          \A i \in 1..Len(Content(s.diskTmp, ManifestFile).files) :
             ManifestEntryOk(s, Content(s.diskTmp, ManifestFile).files[i])

\* validate(brainRoot, {full}) on the committed files.  A message is the
\* record of its kind and of the values the code interpolates in it; the
\* schema errors of one record are one message.
Msg(kind, subject, object) == [kind |-> kind, subject |-> subject, object |-> object]

RequiredMissing(s) ==
  (IF Exists(s.disk, PolicyFile) THEN <<>> ELSE <<Msg("missing file", PolicyFile, "")>>)
  \o (IF Exists(s.disk, ManifestFile) THEN <<>> ELSE <<Msg("missing file", ManifestFile, "")>>)
  \o (IF Exists(s.disk, RecordsFile) THEN <<>> ELSE <<Msg("missing file", RecordsFile, "")>>)

RECURSIVE SchemaErrors(_, _)
SchemaErrors(records, i) ==
  IF i > Len(records) THEN <<>>
  ELSE (IF ValidateRecord(records[i]) THEN <<>>
        ELSE <<Msg("schema", ToString(i - 1), IdStr(records[i].recordId))>>)
       \o SchemaErrors(records, i + 1)

DupeErrors(records) == IF HasDupes(records) THEN <<Msg("duplicate recordId", "", "")>> ELSE <<>>

RECURSIVE ManifestErrors(_, _)
ManifestErrors(s, files) ==
  IF files = <<>> THEN <<>>
  ELSE (IF Exists(s.disk, Head(files).path) THEN <<>>
        ELSE <<Msg("manifest file missing", Head(files).path, "")>>)
       \o ManifestErrors(s, Tail(files))

RECURSIVE ManifestWarnings(_, _)
ManifestWarnings(s, files) ==
  IF files = <<>> THEN <<>>
  ELSE (IF Exists(s.disk, Head(files).path)
           /\ CalculateHash(Content(s.disk, Head(files).path)) # Head(files).hash
        THEN <<Msg("hash mismatch", Head(files).path, "")>>
        ELSE <<>>)
       \o ManifestWarnings(s, Tail(files))

ManifestFiles(s) ==
  IF SafeReadJson(s.disk, ManifestFile).ok THEN Content(s.disk, ManifestFile).files ELSE <<>>

\* the record id the first record of topic a is given on day 0, and the
\* record ids a path spells
RefId == <<"rec", "topic", "a", 0, 1>>

SpelledIn(token) == IF token = DocR THEN {RefId} ELSE {}

\* mutant: the text is the summary alone
RefTextSummaryOnly(activeRec) ==
  IF TruthyT(RecField(activeRec, "summary", UndefT)) THEN activeRec.summary ELSE <<>>

\* `${activeRec.sourceRef || ""} ${activeRec.summary || ""}`
RefText(activeRec) ==
  <<IF Truthy(RecField(activeRec, "sourceRef", UndefS)) THEN activeRec.sourceRef ELSE "", " ">>
  \o (IF TruthyT(RecField(activeRec, "summary", UndefT)) THEN activeRec.summary ELSE <<>>)

\* text.includes(depId)
TextIncludes(text, depId) ==
  \E k \in 1..Len(text) : text[k] = IdStr(depId) \/ depId \in SpelledIn(text[k])

RECURSIVE FilterStatus(_, _)
FilterStatus(records, status) ==
  IF records = <<>> THEN <<>>
  ELSE (IF RecField(Head(records), "status", UndefS) = status THEN <<Head(records)>> ELSE <<>>)
       \o FilterStatus(Tail(records), status)

RECURSIVE RefsOf(_, _)
RefsOf(activeRec, deprecated) ==
  IF deprecated = <<>> THEN <<>>
  ELSE (IF TextIncludes(RefText(activeRec), Head(deprecated).recordId)
        THEN <<Msg("active refers to deprecated", IdStr(activeRec.recordId),
                   IdStr(Head(deprecated).recordId))>>
        ELSE <<>>)
       \o RefsOf(activeRec, Tail(deprecated))

RECURSIVE BackRefs(_, _)
BackRefs(activeRecords, deprecated) ==
  IF activeRecords = <<>> THEN <<>>
  ELSE RefsOf(Head(activeRecords), deprecated) \o BackRefs(Tail(activeRecords), deprecated)

BackRefWarnings(s, full) ==
  IF full
  THEN BackRefs(FilterStatus(ReadJsonl(s.disk, RecordsFile), "active"),
                FilterStatus(ReadJsonl(s.disk, RecordsFile), "deprecated"))
  ELSE <<>>

ResidueWarnings(s) ==
  IF \E f \in IdxFiles : Exists(s.diskTmp, f) \/ Exists(s.diskBak, f)
  THEN <<Msg("residual files", "90_index", "")>>
  ELSE <<>>

Verdict(errors, warnings) == [passed |-> errors = <<>>, errors |-> errors, warnings |-> warnings]

Validate(s, full) ==
  IF RequiredMissing(s) # <<>>
  THEN Verdict(RequiredMissing(s), <<>>)
  ELSE Verdict(SchemaErrors(ReadJsonl(s.disk, RecordsFile), 1)
                 \o DupeErrors(ReadJsonl(s.disk, RecordsFile))
                 \o ManifestErrors(s, ManifestFiles(s)),
               ManifestWarnings(s, ManifestFiles(s))
                 \o BackRefWarnings(s, full)
                 \o ResidueWarnings(s))

\* ---------------------------------------------------- commit / rollback
RenameTmp(s, f) == [s EXCEPT !.disk[f] = s.diskTmp[f], !.diskTmp[f] = Absent]

UnRename(s, f) == [s EXCEPT !.diskTmp[f] = s.disk[f], !.disk[f] = Absent]

RECURSIVE UnRenameAll(_, _)
UnRenameAll(s, committed) ==
  IF committed = <<>> THEN s
  ELSE UnRenameAll(UnRename(s, committed[Len(committed)]), SubSeq(committed, 1, Len(committed) - 1))

\* mutant: the commit leaves the backups where they are
UnlinkBaksNone(s, baks) == s

RECURSIVE UnlinkBaks(_, _)
UnlinkBaks(s, baks) ==
  IF baks = <<>> THEN s
  ELSE UnlinkBaks([s EXCEPT !.diskBak[Head(baks)] = Absent], Tail(baks))

\* renameFail = k > 0: the k-th rename of the commit phase throws.
RECURSIVE CommitFrom(_, _, _)
CommitFrom(s, k, renameFail) ==
  IF k > Len(s.tmpFiles)
  THEN [UnlinkBaks(s, s.bakFiles) EXCEPT !.bakFiles = <<>>, !.tmpFiles = <<>>]
  ELSE IF k = renameFail \/ ~Exists(s.diskTmp, s.tmpFiles[k])
  THEN Throw(UnRenameAll(s, SubSeq(s.tmpFiles, 1, k - 1)), "unknown")
  ELSE CommitFrom(RenameTmp(s, s.tmpFiles[k]), k + 1, renameFail)

Commit(s, renameFail) == CommitFrom(s, 1, renameFail)

\* mutant: rollback unlinks no staged file
RECURSIVE UnlinkTmpsNone(_, _)
UnlinkTmpsNone(s, tmps) == s

RECURSIVE UnlinkTmps(_, _)
UnlinkTmps(s, tmps) ==
  IF tmps = <<>> THEN s
  ELSE UnlinkTmps([s EXCEPT !.diskTmp[Head(tmps)] = Absent], Tail(tmps))

RECURSIVE RestoreBaks(_, _)
RestoreBaks(s, baks) ==
  IF baks = <<>> THEN s
  ELSE LET f == Head(baks)
           s1 == IF Exists(s.diskBak, f)
                 THEN [s EXCEPT !.disk[f] = s.diskBak[f], !.diskBak[f] = Absent]
                 ELSE s
       IN RestoreBaks(s1, Tail(baks))

\* mutant: rollback restores the backups but leaves the staged .tmp files
RollbackKeepTmp(s) ==
  [RestoreBaks(s, s.bakFiles) EXCEPT !.bakFiles = <<>>, !.tmpFiles = <<>>]

Rollback(s) ==
  [RestoreBaks(UnlinkTmps(s, s.tmpFiles), s.bakFiles) EXCEPT !.bakFiles = <<>>, !.tmpFiles = <<>>]

\* ---------------------------------------------------------- execute
\* Every step operator returns s untouched once an error has been thrown
\* (s.err # ""): the remaining statements of the try block are skipped.
\* Step 0 (residue) comes before step 1 (intent validation); minting the id
\* of a create throws outside any numbered step on an unknown scopeType.
CheckAndValidate(s0, intent) ==
  IF CheckResidualTmp(s0) THEN Throw(s0, "0")
  ELSE IF ~ValidateIntent(intent) THEN Throw(s0, "1")
  ELSE IF intent.action = "create" /\ SCOPE_ABBREV(intent.record.scopeType) = UndefS
  THEN Throw(s0, "unknown")
  ELSE s0

Staged(s0, intent, t) ==
  LET sb == CheckAndValidate(s0, intent)
      parsed == IF sb.err # "" THEN intent ELSE ParseIntent(s0, intent, t)
  IN [s |-> UpdateDigestTmp(
              UpdateManifestTmp(
                UpdateRecordsTmp(
                  WriteDocumentTmp(
                    EnsureFolders(CreateBackups(sb, parsed), parsed),
                    parsed),
                  parsed, t),
                parsed, t),
              parsed),
      parsed |-> parsed]

ValidateAndCommit(s7, renameFail) ==
  IF s7.err # "" THEN s7
  ELSE IF ~ValidateTmp(s7) THEN Throw(s7, "8")
  ELSE Commit(s7, renameFail)

Report(s8, recordId) ==
  IF s8.err # ""
  THEN [s |-> [Rollback(s8) EXCEPT !.err = ""],
        result |-> [success |-> FALSE, recordId |-> UndefT, step |-> s8.err]]
  ELSE [s |-> s8,
        result |-> [success |-> TRUE, recordId |-> recordId, step |-> ""]]

Execute(s0, intent, t, renameFail) ==
  LET st == Staged(s0, intent, t)
  IN Report(ValidateAndCommit(st.s, renameFail), st.parsed.recordId)

\* ------------------------------------------- execute, step by step
\* step n of execute (2 backups, 3 folders, 4 document, 5 records,
\* 6 manifest, 7 digest)
Step(n, s, parsed, t) ==
  CASE n = 2 -> CreateBackups(s, parsed)
    [] n = 3 -> EnsureFolders(s, parsed)
    [] n = 4 -> WriteDocumentTmp(s, parsed)
    [] n = 5 -> UpdateRecordsTmp(s, parsed, t)
    [] n = 6 -> UpdateManifestTmp(s, parsed, t)
    [] n = 7 -> UpdateDigestTmp(s, parsed)

RECURSIVE Run(_, _, _, _, _)
Run(s, parsed, t, lo, hi) ==
  IF lo > hi THEN s ELSE Run(Step(lo, s, parsed, t), parsed, t, lo + 1, hi)

RECURSIVE RenameFirst(_, _, _)
\* renames k..n of the commit phase
RenameFirst(s, k, n) ==
  IF k > n \/ s.err # "" THEN s
  ELSE IF ~Exists(s.diskTmp, s.tmpFiles[k]) THEN Throw(s, "unknown")
  ELSE RenameFirst(RenameTmp(s, s.tmpFiles[k]), k + 1, n)

\* Where execute(intent) stands at a stop point: after step stop (2..7),
\* after validation has passed (8), after the first stop - 8 renames of the
\* commit phase (9..).  err # "" when the call threw before that point or has
\* fewer renames to do.
Interrupted(s0, intent, t, stop) ==
  LET sb == CheckAndValidate(s0, intent)
      parsed == IF sb.err # "" THEN intent ELSE ParseIntent(s0, intent, t)
      staged == Run(sb, parsed, t, 2, IF stop < 7 THEN stop ELSE 7)
  IN [parsed |-> parsed,
      s |-> IF stop < 8 \/ staged.err # "" THEN staged
            ELSE IF ~ValidateTmp(staged) THEN Throw(staged, "8")
            ELSE IF stop - 8 > Len(staged.tmpFiles) THEN Throw(staged, "done")
            ELSE RenameFirst(staged, 1, stop - 8)]

\* the rest of execute from a stop point on (the steps after stop, validation,
\* the remaining renames, cleanup; rollback on error)
Resumed(s, parsed, t, stop) ==
  LET staged == Run(s, parsed, t, stop + 1, 7)
  IN Report(IF stop >= 8
            THEN CommitFrom(s, stop - 8 + 1, 0)
            ELSE ValidateAndCommit(staged, 0),
            parsed.recordId)

\* ------------------------------------------------------------ boot.js
\* String.prototype.split on a text of tokens: the pieces between the
\* occurrences of sep, empty pieces included (acc is the piece being read)
RECURSIVE Split(_, _, _)
Split(text, sep, acc) ==
  IF text = <<>> THEN <<acc>>
  ELSE IF Head(text) = sep THEN <<acc>> \o Split(Tail(text), sep, <<>>)
  ELSE Split(Tail(text), sep, Append(acc, Head(text)))

WhiteSpace == {" ", ""}

RECURSIVE TrimStart(_)
TrimStart(text) ==
  IF text # <<>> /\ Head(text) \in WhiteSpace THEN TrimStart(Tail(text)) ELSE text

RECURSIVE TrimEnd(_)
TrimEnd(text) ==
  IF text # <<>> /\ text[Len(text)] \in WhiteSpace
  THEN TrimEnd(SubSeq(text, 1, Len(text) - 1)) ELSE text

\* String.prototype.trim
Trim(text) == TrimEnd(TrimStart(text))

\* the tokens of the model that begin with "#"
StartsWithHash(text) == text # <<>> /\ Head(text) \in {H1, H2, H3, "#"}

\* one line of the digest, already split on " | "
LoadDigestLine(parts) ==
  IF Len(parts) < 5 THEN <<>>
  ELSE <<[recordId |-> Trim(parts[1]),
          title |-> Trim(parts[2]),
          summary |-> Trim(parts[3]),
          tags |-> IF Trim(parts[4]) # <<>> THEN Split(Trim(parts[4]), COMMA, <<>>) ELSE <<>>,
          status |-> Trim(parts[5])]>>

RECURSIVE LoadDigestLines(_)
LoadDigestLines(lines) ==
  IF lines = <<>> THEN <<>>
  ELSE (IF Trim(Head(lines)) = <<>> \/ StartsWithHash(Trim(Head(lines))) THEN <<>>
        ELSE LoadDigestLine(Split(Head(lines), SEP, <<>>)))
       \o LoadDigestLines(Tail(lines))

\* _loadDigest(digestPath)
LoadDigest(store) ==
  IF ~Exists(store, DigestFile) THEN <<>>
  ELSE LoadDigestLines(Split(Content(store, DigestFile), NL, <<>>))

\* mutant: the drift check skips the entries whose file does not exist
RECURSIVE MismatchesHashOnly(_, _)
MismatchesHashOnly(store, files) ==
  IF files = <<>> THEN <<>>
  ELSE (IF Exists(store, Head(files).path)
           /\ CalculateHash(Content(store, Head(files).path)) # Head(files).hash
        THEN <<[path |-> Head(files).path, reason |-> "hash mismatch",
                expected |-> Head(files).hash,
                actual |-> CalculateHash(Content(store, Head(files).path))]>>
        ELSE <<>>)
       \o MismatchesHashOnly(store, Tail(files))

RECURSIVE Mismatches(_, _)
Mismatches(store, files) ==
  IF files = <<>> THEN <<>>
  ELSE LET e == Head(files)
           m == IF ~Exists(store, e.path)
                THEN <<[path |-> e.path, reason |-> "missing", expected |-> e.hash,
                        actual |-> NullT]>>
                ELSE IF CalculateHash(Content(store, e.path)) # e.hash
                THEN <<[path |-> e.path, reason |-> "hash mismatch", expected |-> e.hash,
                        actual |-> CalculateHash(Content(store, e.path))]>>
                ELSE <<>>
       IN m \o Mismatches(store, Tail(files))

Boot(store) ==
  IF ~Exists(store, PolicyFile) \/ ~SafeReadJson(store, ManifestFile).ok
  THEN [success |-> FALSE, mismatches |-> <<>>, warnings |-> 0]
  ELSE LET mm == Mismatches(store, Content(store, ManifestFile).files)
       IN [success |-> TRUE, mismatches |-> mm, warnings |-> IF mm # <<>> THEN 1 ELSE 0]

\* -------------------------------------------------- lifecycle (boot.js)
\* names every object literal inherits from Object.prototype
ObjectPrototypeKeys == {"constructor", "toString", "__proto__"}

\* ALLOWED_TRANSITIONS[from]: an own array, an inherited value (truthy, and
\* without an includes method), or undefined
ALLOWED_TRANSITIONS(from) ==
  CASE from = "active" -> [kind |-> "array", items |-> {"deprecated", "archived"}]
    [] from = "deprecated" -> [kind |-> "array", items |-> {"active"}]
    [] from = "archived" -> [kind |-> "array", items |-> {}]
    [] from \in ObjectPrototypeKeys -> [kind |-> "inherited", items |-> {}]
    [] OTHER -> [kind |-> "undefined", items |-> {}]

NoReason == <<>>

\* validateTransition(from, to); throws is the error thrown, "" when it returns
ValidateTransition(from, to) ==
  IF ALLOWED_TRANSITIONS(from).kind = "undefined"
  THEN [allowed |-> FALSE, reason |-> <<"unknown current state", from>>, throws |-> ""]
  ELSE IF ALLOWED_TRANSITIONS(from).kind = "inherited"
  THEN [allowed |-> FALSE, reason |-> NoReason, throws |-> "TypeError"]
  ELSE IF to \notin ALLOWED_TRANSITIONS(from).items
  THEN [allowed |-> FALSE, reason |-> <<"transition not allowed", from, to>>, throws |-> ""]
  ELSE [allowed |-> TRUE, reason |-> NoReason, throws |-> ""]

\* an option or a field that holds no timestamp (undefined)
NoTime == -1

UnmetStatus == "status: not deprecated"
UnmetSameSession == "session: deprecated in the current session"
UnmetNoSession == "session: no session start"
UnmetReplacedBy == "replacedBy"
UnmetUser == "user confirmation"

\* mutant: a record last written exactly at the session start passes
SessionUnmetStrict(record, options) ==
  IF options.currentSessionStart # NoTime /\ record.updatedAt # NoTime
  THEN (IF record.updatedAt > options.currentSessionStart THEN <<UnmetSameSession>> ELSE <<>>)
  ELSE <<UnmetNoSession>>

\* condition 1 of the gate: one session elapsed
SessionUnmet(record, options) ==
  IF options.currentSessionStart # NoTime /\ record.updatedAt # NoTime
  THEN (IF record.updatedAt >= options.currentSessionStart THEN <<UnmetSameSession>> ELSE <<>>)
  ELSE <<UnmetNoSession>>

Gate(unmet) == [allowed |-> Len(unmet) = 0, unmet |-> unmet]

\* checkDeleteGate(record, options); an omitted userConfirmed is FALSE
CheckDeleteGate(record, options) ==
  IF record.status # "deprecated"
  THEN [allowed |-> FALSE, unmet |-> <<UnmetStatus>>]
  ELSE Gate(SessionUnmet(record, options)
            \o (IF ~TruthyT(record.replacedBy) THEN <<UnmetReplacedBy>> ELSE <<>>)
            \o (IF ~options.userConfirmed THEN <<UnmetUser>> ELSE <<>>))

BannedForSSOT == {"inference", "candidate"}

\* mutant: the scan does not skip the records that are not active
RECURSIVE ContaminatedAnyStatus(_)
ContaminatedAnyStatus(rs) ==
  IF rs = <<>> THEN <<>>
  ELSE (IF Head(rs).type \in {"rule", "decision"} /\ Head(rs).sourceType \in BannedForSSOT
        THEN <<[recordId |-> Head(rs).recordId, type |-> Head(rs).type,
                sourceType |-> Head(rs).sourceType, title |-> Head(rs).title]>>
        ELSE <<>>)
       \o ContaminatedAnyStatus(Tail(rs))

RECURSIVE Contaminated(_)
Contaminated(rs) ==
  IF rs = <<>> THEN <<>>
  ELSE (IF Head(rs).status = "active" /\ Head(rs).type \in {"rule", "decision"}
           /\ Head(rs).sourceType \in BannedForSSOT
        THEN <<[recordId |-> Head(rs).recordId, type |-> Head(rs).type,
                sourceType |-> Head(rs).sourceType, title |-> Head(rs).title]>>
        ELSE <<>>)
       \o Contaminated(Tail(rs))

\* detectContamination(brainRoot)
DetectContamination(store) ==
  [contaminated |-> Contaminated(ReadJsonl(store, RecordsFile)),
   clean |-> Len(Contaminated(ReadJsonl(store, RecordsFile))) = 0]

\* ------------------------------------------------------ search (boot.js)
\* _scopeAbbrev(scopeType)
ScopeAbbrev(scopeType) ==
  IF SCOPE_ABBREV(scopeType) # UndefS THEN SCOPE_ABBREV(scopeType) ELSE scopeType

QueryScopeIds == {"a", "user"}

\* the record ids a digest can hold
IdUniverse ==
  {<<"rec", ab, sid, d, n>> : ab \in {"proj", "agent", "user", "topic"}, sid \in QueryScopeIds,
                              d \in 0..DateStr(MaxClock), n \in 1..(MaxCommits + 1)}

\* recordId.includes("_" + part + "_"): part stands between two underscores
\* of rec_{abbrev}_{scopeId}_{date}_{seq} (no part of the model is a date)
IdIncludes(idText, part) ==
  \E id \in IdUniverse : idText = <<IdStr(id)>> /\ part \in {id[2], id[3]}

ScopeFilter(ds, query) ==
  IF ~Truthy(query.scopeType) THEN ds
  ELSE IF ~Truthy(query.scopeId)
  THEN SelectSeq(ds, LAMBDA d : IdIncludes(d.recordId, ScopeAbbrev(query.scopeType)))
  ELSE SelectSeq(ds, LAMBDA d : /\ IdIncludes(d.recordId, ScopeAbbrev(query.scopeType))
                                /\ IdIncludes(d.recordId, query.scopeId))

ActiveOnly(ds) == SelectSeq(ds, LAMBDA d : d.status = <<"active">>)

\* String.prototype.toLowerCase on the words of the model
ToLowerCase(w) == IF w = "API" THEN "api" ELSE w

\* the words of the model of length 1 or less
ShortWords == {"", " ", "t", "s", "a", "b"}

\* goal.split(/\s+/).filter(t => t.length > 1)
GoalTokens(goal) ==
  IF ~TruthyT(goal) THEN <<>>
  ELSE SelectSeq([i \in 1..Len(goal) |-> ToLowerCase(goal[i])], LAMBDA w : w \notin ShortWords)

\* text.toLowerCase().includes(token), for a token that is a whole word
Includes(text, token) == \E i \in 1..Len(text) : ToLowerCase(text[i]) = token

Flatten(tags) == [i \in 1..Len(tags) |-> tags[i][1]]

RECURSIVE Relevance(_, _)
Relevance(d, tokens) ==
  IF tokens = <<>> THEN 0
  ELSE (IF Includes(d.title, Head(tokens)) THEN 3 ELSE 0)
       + (IF Includes(d.summary, Head(tokens)) THEN 2 ELSE 0)
       + (IF Includes(Flatten(d.tags), Head(tokens)) THEN 1 ELSE 0)
       + Relevance(d, Tail(tokens))

\* _calculateRelevance(digest, goal)
CalculateRelevance(d, goal) == Relevance(d, GoalTokens(goal))

Scored(ds, goal) == [i \in 1..Len(ds) |-> [digest |-> ds[i], score |-> CalculateRelevance(ds[i], goal)]]

\* Array.prototype.sort with (a, b) => b.score - a.score: descending, stable
RECURSIVE InsertByScore(_, _)
InsertByScore(sorted, x) ==
  IF sorted = <<>> THEN <<x>>
  ELSE IF Head(sorted).score >= x.score THEN <<Head(sorted)>> \o InsertByScore(Tail(sorted), x)
  ELSE <<x>> \o sorted

RECURSIVE SortByScore(_)
SortByScore(seq) ==
  IF seq = <<>> THEN <<>>
  ELSE InsertByScore(SortByScore(SubSeq(seq, 1, Len(seq) - 1)), seq[Len(seq)])

DefaultTopK == 10

\* query.topK || 10; an omitted topK is <<>>
TopK(query) == IF query.topK = <<>> \/ query.topK[1] = 0 THEN DefaultTopK ELSE query.topK[1]

\* scored.slice(0, k) for k >= 0
Slice(seq, k) == SubSeq(seq, 1, IF k < Len(seq) THEN k ELSE Len(seq))

\* search(brainRoot, query)
Search(store, query) ==
  [candidates |-> Slice(SortByScore(Scored(ActiveOnly(ScopeFilter(LoadDigest(store), query)),
                                           query.currentGoal)),
                        TopK(query)),
   total |-> Len(ActiveOnly(ScopeFilter(LoadDigest(store), query)))]

\* ------------------------------------------------------------- state
VARIABLES
  disk,      \* every file X of the store: <<content>>, or Absent
  diskTmp,   \* the files X.tmp
  diskBak,   \* the files X.bak
  dirs,      \* the directories that exist
  bakFiles,  \* BWTEngine.bakFiles
  tmpFiles,  \* BWTEngine.tmpFiles
  now,       \* the engine clock
  commits,   \* number of transactions committed so far
  call,      \* the call made by the last step (intent and result), if any
  faults,    \* number of interruptions and outside interventions so far
  other      \* the transaction of a second engine on the same root, while in flight

vars == <<disk, diskTmp, diskBak, dirs, bakFiles, tmpFiles, now, commits, call, faults, other>>

S == [disk |-> disk, diskTmp |-> diskTmp, diskBak |-> diskBak, dirs |-> dirs,
      bakFiles |-> bakFiles, tmpFiles |-> tmpFiles, err |-> ""]

records == Content(disk, RecordsFile)
manifest == Content(disk, ManifestFile)
digest == Content(disk, DigestFile)

\* ------------------------------------------------------------ inputs
NoIntent == [action |-> UndefS, sourceRef |-> UndefS, content |-> UndefS, record |-> NoRecord,
             recordId |-> UndefT, replacedBy |-> UndefT, deprecationReason |-> UndefT]

NoCall == [kind |-> "none", intent |-> NoIntent,
           result |-> [success |-> FALSE, recordId |-> UndefT, step |-> ""]]

NoResult == [success |-> FALSE, recordId |-> UndefT, step |-> ""]

\* no second transaction
NoTxn == [active |-> FALSE, parsed |-> NoIntent, bakFiles |-> <<>>, tmpFiles |-> <<>>,
          stop |-> 0, overlapped |-> FALSE, during |-> NoResult, result |-> NoResult]

UnknownId == <<"rec", "topic", "nonexistent", 0, 9999>>

RecOk == [scopeType |-> "topic", scopeId |-> "a", type |-> "note", title |-> <<"t">>,
          summary |-> <<"s">>, tags |-> <<"domain/x", "intent/y">>, sourceType |-> "candidate"]

\* no summary, no tags, a title of two lines, and fields the engine must set itself
RecJunk == [scopeType |-> "topic", scopeId |-> "a", type |-> "note", title |-> <<"t", NL, "u">>,
            sourceType |-> "candidate", recordId |-> <<"rec", "user", "b", 0, 7>>,
            status |-> "deprecated", contentHash |-> <<"md5:", "x">>]

CreateIntents ==
  {[NoIntent EXCEPT !.action = "create", !.sourceRef = p, !.content = c, !.record = r] :
     p \in Paths, c \in {"", "A"}, r \in {RecOk, RecJunk}}
  \cup {[NoIntent EXCEPT !.action = "create", !.sourceRef = DocA, !.content = "A", !.record = r] :
     r \in {[RecOk EXCEPT !.type = "bogus"], [RecOk EXCEPT !.scopeType = "alien"], NoRecord}}
  \cup {[NoIntent EXCEPT !.action = "create", !.sourceRef = DocA, !.record = RecOk]}
  \cup {[NoIntent EXCEPT !.action = "create", !.sourceRef = DocP, !.content = "A", !.record = RecOk]}

Ids(rs) == {rs[i].recordId : i \in 1..Len(rs)}

Patches(rs) ==
  {[title |-> <<"u">>], [status |-> "deprecated"], [replacedBy |-> <<"obsolete">>],
   [tags |-> <<"misc/z">>]} \cup {[recordId |-> id] : id \in Ids(rs)}

UpdateIntents(rs) ==
  {[NoIntent EXCEPT !.action = "update", !.recordId = id, !.sourceRef = p, !.content = c] :
     id \in Ids(rs), p \in Paths \cup {UndefS}, c \in {UndefS, "", "B"}}
  \cup {[NoIntent EXCEPT !.action = "update", !.recordId = id, !.record = pt] :
     id \in Ids(rs), pt \in Patches(rs)}
  \cup {[NoIntent EXCEPT !.action = "update", !.recordId = UnknownId, !.sourceRef = p, !.content = "B"] :
     p \in {DocA, UndefS}}

DeprecateIntents(rs) ==
  {[NoIntent EXCEPT !.action = "deprecate", !.recordId = id, !.replacedBy = rb[1],
                    !.deprecationReason = rb[2]] :
     id \in Ids(rs),
     rb \in {<<UndefT, UndefT>>, <<NullT, UndefT>>, <<<<"obsolete">>, <<>>>>,
             <<<<"obsolete">>, <<"r">>>>, <<UnknownId, UndefT>>}}
  \cup {[NoIntent EXCEPT !.action = "deprecate", !.recordId = UnknownId, !.replacedBy = <<"obsolete">>,
                         !.deprecationReason = <<"r">>]}

DeleteIntents(rs) ==
  {[NoIntent EXCEPT !.action = "delete", !.recordId = id, !.sourceRef = p] :
     id \in Ids(rs), p \in Paths \cup {UndefS}}
  \cup {[NoIntent EXCEPT !.action = "delete", !.recordId = UnknownId, !.sourceRef = DocA]}

Intents(rs) ==
  CreateIntents \cup UpdateIntents(rs) \cup DeprecateIntents(rs) \cup DeleteIntents(rs)
    \cup {[NoIntent EXCEPT !.action = "bogus"]}

\* ----------------------------------------------------------- actions
\* The store as the initializer leaves it: the six folders and empty
\* index artifacts.
Init ==
  /\ disk = [f \in FileIds |->
               IF f = RecordsFile THEN <<<<>>>>
               ELSE IF f = ManifestFile
                    THEN <<[files |-> <<>>, updatedAt |-> 0, summary |-> ComputeSummary(<<>>)]>>
               ELSE IF f = DigestFile THEN <<<<>>>>
               ELSE IF f = PolicyFile THEN <<"policy">>
               ELSE Absent]
  /\ diskTmp = [f \in FileIds |-> Absent]
  /\ diskBak = [f \in FileIds |-> Absent]
  /\ dirs = InitDirs
  /\ bakFiles = <<>>
  /\ tmpFiles = <<>>
  /\ now = 0
  /\ commits = 0
  /\ call = NoCall
  /\ faults = 0
  /\ other = NoTxn

Apply(r, intent) ==
  /\ disk' = r.s.disk
  /\ diskTmp' = r.s.diskTmp
  /\ diskBak' = r.s.diskBak
  /\ dirs' = r.s.dirs
  /\ bakFiles' = r.s.bakFiles
  /\ tmpFiles' = r.s.tmpFiles
  /\ commits' = IF r.result.success THEN commits + 1 ELSE commits
  /\ call' = [kind |-> "execute", intent |-> intent, result |-> r.result]
  /\ UNCHANGED <<now, faults, other>>

\* engine.execute(intent): the engine is synchronous, the caller makes one
\* call at a time and sees its result
BWTExecute ==
  /\ call.kind = "none"
  /\ commits < MaxCommits
  /\ \E intent \in Intents(records) :
       \E r \in {Execute(S, intent, now, 0)} : Apply(r, intent)

\* the caller has read the result
Return ==
  /\ call.kind \in {"execute", "boot", "load", "gate", "transition", "scan", "search",
                   "validate"}
  /\ call' = NoCall
  /\ UNCHANGED <<disk, diskTmp, diskBak, dirs, bakFiles, tmpFiles, now, commits, faults, other>>

\* time passes
Tick ==
  /\ call.kind = "none"
  /\ now < MaxClock
  /\ now' = now + 1
  /\ UNCHANGED <<disk, diskTmp, diskBak, dirs, bakFiles, tmpFiles, commits, call, faults, other>>

\* an abandoned transaction, or anyone else, leaves an empty records.jsonl.tmp
\* in the index folder
PlaceResidue ==
  /\ call.kind = "none"
  /\ ~CheckResidualTmp(S)
  /\ diskTmp' = [diskTmp EXCEPT ![RecordsFile] = <<<<>>>>]
  /\ UNCHANGED <<disk, diskBak, dirs, bakFiles, tmpFiles, now, commits, call, faults, other>>

Next == BWTExecute \/ Return \/ Tick \/ PlaceResidue

Spec == Init /\ [][Next]_vars

\* Record identity over longer runs: creates, deletes and updates that patch
\* the recordId field.
FreshId == <<"rec", "topic", "b", 0, 1>>

IdIntents(rs) ==
  {[NoIntent EXCEPT !.action = "create", !.sourceRef = p, !.content = "A", !.record = RecOk] :
     p \in Paths}
  \cup {[NoIntent EXCEPT !.action = "update", !.recordId = id, !.record = [recordId |-> id2]] :
     id \in Ids(rs), id2 \in Ids(rs) \cup {FreshId}}
  \cup {[NoIntent EXCEPT !.action = "delete", !.recordId = id] : id \in Ids(rs)}

IdsExecute ==
  /\ call.kind = "none"
  /\ commits < MaxIdCommits
  /\ \E intent \in IdIntents(records) :
       \E r \in {Execute(S, intent, now, 0)} : Apply(r, intent)

NextIds == IdsExecute \/ Return \/ Tick

SpecIds == Init /\ [][NextIds]_vars

\* ---------------------------------------- interruptions and overlap
\* well-formed intents: creates, and updates, deprecations and deletes that
\* name an existing record and its own document
EnvIntents(rs) ==
  {[NoIntent EXCEPT !.action = "create", !.sourceRef = p, !.content = "A", !.record = RecOk] :
     p \in Paths}
  \cup {[NoIntent EXCEPT !.action = "update", !.recordId = rs[i].recordId,
                         !.sourceRef = rs[i].sourceRef, !.content = "B"] : i \in 1..Len(rs)}
  \cup {[NoIntent EXCEPT !.action = "deprecate", !.recordId = rs[i].recordId,
                         !.replacedBy = <<"obsolete">>, !.deprecationReason = <<"r">>] :
          i \in 1..Len(rs)}
  \cup {[NoIntent EXCEPT !.action = "delete", !.recordId = rs[i].recordId,
                         !.sourceRef = rs[i].sourceRef] : i \in 1..Len(rs)}

EnvExecute ==
  /\ call.kind = "none"
  /\ ~other.active
  /\ commits < MaxCommits
  /\ \E intent \in EnvIntents(records) :
       \E r \in {Execute(S, intent, now, 0)} : Apply(r, intent)

StopPoints == 2..12

StopLabel(stop, n) ==
  IF stop < 8 THEN "staging"
  ELSE IF stop = 8 THEN "validated"
  ELSE IF stop - 8 < n THEN "between"
  ELSE "renamed"

\* the process running execute(intent) stops at a stop point: what it wrote
\* stays on disk, the engine object is gone
Crash ==
  /\ call.kind = "none"
  /\ ~other.active
  /\ faults < MaxFaults
  /\ \E intent \in EnvIntents(records), stop \in StopPoints :
       \E r \in {Interrupted(S, intent, now, stop)} :
         /\ r.s.err = ""
         /\ disk' = r.s.disk
         /\ diskTmp' = r.s.diskTmp
         /\ diskBak' = r.s.diskBak
         /\ dirs' = r.s.dirs
         /\ call' = [kind |-> "crash", intent |-> intent,
                     result |-> [success |-> FALSE, recordId |-> UndefT,
                                 step |-> StopLabel(stop, Len(r.s.tmpFiles))]]
         /\ faults' = faults + 1
         /\ UNCHANGED <<bakFiles, tmpFiles, now, commits, other>>

\* a new process starts on the same root
Restart ==
  /\ call.kind = "crash"
  /\ call' = NoCall
  /\ UNCHANGED <<disk, diskTmp, diskBak, dirs, bakFiles, tmpFiles, now, commits, faults, other>>

NextCrash == EnvExecute \/ Return \/ Crash \/ Restart

SpecCrash == Init /\ [][NextCrash]_vars

\* A second engine (another process on the same root) starts execute(intent)
\* and has reached a stop point; its bakFiles and tmpFiles are its own.
Begin ==
  /\ call.kind = "none"
  /\ ~other.active
  /\ faults < MaxFaults
  /\ \E intent \in EnvIntents(records), stop \in StopPoints :
       \E r \in {Interrupted(S, intent, now, stop)} :
         /\ r.s.err = ""
         /\ disk' = r.s.disk
         /\ diskTmp' = r.s.diskTmp
         /\ diskBak' = r.s.diskBak
         /\ dirs' = r.s.dirs
         /\ other' = [NoTxn EXCEPT !.active = TRUE, !.parsed = r.parsed,
                                   !.bakFiles = r.s.bakFiles, !.tmpFiles = r.s.tmpFiles,
                                   !.stop = stop]
  /\ faults' = faults + 1
  /\ UNCHANGED <<bakFiles, tmpFiles, now, commits, call>>

\* the first engine runs a whole execute call while the second one is in flight
OverlapExecute ==
  /\ call.kind = "none"
  /\ other.active
  /\ ~other.overlapped
  /\ \E intent \in EnvIntents(records) :
       \E r \in {Execute(S, intent, now, 0)} :
         /\ disk' = r.s.disk
         /\ diskTmp' = r.s.diskTmp
         /\ diskBak' = r.s.diskBak
         /\ dirs' = r.s.dirs
         /\ bakFiles' = r.s.bakFiles
         /\ tmpFiles' = r.s.tmpFiles
         /\ commits' = IF r.result.success THEN commits + 1 ELSE commits
         /\ call' = [kind |-> "execute", intent |-> intent, result |-> r.result]
         /\ other' = [other EXCEPT !.overlapped = TRUE, !.during = r.result]
  /\ UNCHANGED <<now, faults>>

\* the second engine runs the rest of its call
Resume ==
  /\ other.active
  /\ call.kind = "none"
  /\ \E r \in {Resumed([S EXCEPT !.bakFiles = other.bakFiles, !.tmpFiles = other.tmpFiles],
                         other.parsed, now, other.stop)} :
       /\ disk' = r.s.disk
       /\ diskTmp' = r.s.diskTmp
       /\ diskBak' = r.s.diskBak
       /\ dirs' = r.s.dirs
       /\ commits' = IF r.result.success THEN commits + 1 ELSE commits
       /\ other' = [other EXCEPT !.active = FALSE, !.bakFiles = <<>>, !.tmpFiles = <<>>,
                                 !.result = r.result]
  /\ UNCHANGED <<bakFiles, tmpFiles, now, call, faults>>

NextOverlap == EnvExecute \/ Return \/ Begin \/ OverlapExecute \/ Resume

SpecOverlap == Init /\ [][NextOverlap]_vars

\* The first engine has done every rename of its commit phase and has not
\* yet unlinked its .bak files, while the second engine is in flight.
OverlapCommitting ==
  /\ call.kind = "none"
  /\ other.active
  /\ ~other.overlapped
  /\ \E intent \in EnvIntents(records), stop \in StopPoints :
       \E r \in {Interrupted(S, intent, now, stop)} :
         /\ r.s.err = ""
         /\ stop - 8 = Len(r.s.tmpFiles)
         /\ disk' = r.s.disk
         /\ diskTmp' = r.s.diskTmp
         /\ diskBak' = r.s.diskBak
         /\ dirs' = r.s.dirs
         /\ bakFiles' = r.s.bakFiles
         /\ tmpFiles' = r.s.tmpFiles
         /\ call' = [kind |-> "committing", intent |-> intent, result |-> NoResult,
                     parsed |-> r.parsed, stop |-> stop]
         /\ other' = [other EXCEPT !.overlapped = TRUE]
  /\ UNCHANGED <<now, commits, faults>>

\* the second engine runs the rest of its call in that window
ResumeDuring ==
  /\ other.active
  /\ call.kind = "committing"
  /\ \E r \in {Resumed([S EXCEPT !.bakFiles = other.bakFiles, !.tmpFiles = other.tmpFiles],
                         other.parsed, now, other.stop)} :
       /\ disk' = r.s.disk
       /\ diskTmp' = r.s.diskTmp
       /\ diskBak' = r.s.diskBak
       /\ dirs' = r.s.dirs
       /\ commits' = IF r.result.success THEN commits + 1 ELSE commits
       /\ other' = [other EXCEPT !.active = FALSE, !.bakFiles = <<>>, !.tmpFiles = <<>>,
                                 !.result = r.result]
  /\ UNCHANGED <<bakFiles, tmpFiles, now, call, faults>>

\* the first engine unlinks its .bak files and returns
Finish ==
  /\ call.kind = "committing"
  /\ \E r \in {Resumed(S, call.parsed, now, call.stop)} :
       /\ disk' = r.s.disk
       /\ diskTmp' = r.s.diskTmp
       /\ diskBak' = r.s.diskBak
       /\ dirs' = r.s.dirs
       /\ bakFiles' = r.s.bakFiles
       /\ tmpFiles' = r.s.tmpFiles
       /\ commits' = IF r.result.success THEN commits + 1 ELSE commits
       /\ call' = [kind |-> "execute", intent |-> call.intent, result |-> r.result]
       /\ other' = [other EXCEPT !.during = r.result]
  /\ UNCHANGED <<now, faults>>

NextRace ==
  EnvExecute \/ Return \/ Begin \/ OverlapExecute \/ Resume \/ OverlapCommitting
    \/ ResumeDuring \/ Finish

SpecRace == Init /\ [][NextRace]_vars

\* ------------------------------------------------- reading the digest
\* a title holding the column separator, a title with a leading blank
RecPipe == [RecOk EXCEPT !.title = <<"a", SEP, "b">>]

RecPad == [RecOk EXCEPT !.title = <<" ", "t">>, !.tags = <<>>]

DigestIntents(rs) ==
  {[NoIntent EXCEPT !.action = "create", !.sourceRef = p, !.content = "A", !.record = r] :
     p \in Paths, r \in {RecOk, RecPipe, RecPad}}
  \cup {i \in EnvIntents(rs) : i.action # "create"}

DigestExecute ==
  /\ call.kind = "none"
  /\ commits < MaxCommits
  /\ \E intent \in DigestIntents(records) :
       \E r \in {Execute(S, intent, now, 0)} : Apply(r, intent)

\* the query engine reads records_digest.txt
LoadDigestCall ==
  /\ call.kind = "none"
  /\ call' = [kind |-> "load", intent |-> NoIntent, result |-> LoadDigest(disk)]
  /\ UNCHANGED <<disk, diskTmp, diskBak, dirs, bakFiles, tmpFiles, now, commits, faults, other>>

NextDigest == DigestExecute \/ Return \/ LoadDigestCall

SpecDigest == Init /\ [][NextDigest]_vars

\* ------------------------------------------------------ lifecycle calls
GateTimes == 0..(MaxClock + 1)

\* the fields of a record that the gate reads; replacedBy may be null, the
\* empty string, "obsolete" or a record id
GateRecords ==
  [status : STATUS_VALUES, updatedAt : GateTimes \cup {NoTime},
   replacedBy : {NullT, <<>>, <<"obsolete">>, FreshId}]

GateOptions == [currentSessionStart : GateTimes \cup {NoTime}, userConfirmed : BOOLEAN]

GateCall ==
  /\ call.kind = "none"
  /\ \E record \in GateRecords, options \in GateOptions :
       call' = [kind |-> "gate", intent |-> NoIntent, record |-> record, options |-> options,
                result |-> CheckDeleteGate(record, options)]
  /\ UNCHANGED <<disk, diskTmp, diskBak, dirs, bakFiles, tmpFiles, now, commits, faults, other>>

\* states a caller may pass: the three of the schema, a misspelt one, and a
\* name that Object.prototype defines
TransitionStates == STATUS_VALUES \cup {"unknown", "constructor"}

TransitionCall ==
  /\ call.kind = "none"
  /\ \E from \in TransitionStates, to \in TransitionStates :
       call' = [kind |-> "transition", intent |-> NoIntent, from |-> from, to |-> to,
                result |-> ValidateTransition(from, to)]
  /\ UNCHANGED <<disk, diskTmp, diskBak, dirs, bakFiles, tmpFiles, now, commits, faults, other>>

NextLifecycle == GateCall \/ TransitionCall \/ Return

SpecLifecycle == Init /\ [][NextLifecycle]_vars

\* ------------------------------------------------------------ queries
\* records of several scopes, types and source types
QueryRecords ==
  {[RecOk EXCEPT !.scopeType = sc[1], !.scopeId = sc[2]] :
     sc \in {<<"topic", "a">>, <<"topic", "user">>, <<"user", "a">>}}
  \cup {[RecOk EXCEPT !.type = "rule", !.sourceType = st] :
          st \in {"user_confirmed", "candidate", "chat_log"}}
  \cup {[RecOk EXCEPT !.title = <<"API", " ", "design">>, !.summary = <<"design">>], RecPipe}

QueryIntents(rs) ==
  {[NoIntent EXCEPT !.action = "create", !.sourceRef = DocA, !.content = "A", !.record = r] :
     r \in QueryRecords}
  \cup {i \in EnvIntents(rs) : i.action \in {"deprecate", "delete"}}

QueryExecute ==
  /\ call.kind = "none"
  /\ commits < MaxCommits
  /\ \E intent \in QueryIntents(records) :
       \E r \in {Execute(S, intent, now, 0)} : Apply(r, intent)

ScanCall ==
  /\ call.kind = "none"
  /\ call' = [kind |-> "scan", intent |-> NoIntent, result |-> DetectContamination(disk)]
  /\ UNCHANGED <<disk, diskTmp, diskBak, dirs, bakFiles, tmpFiles, now, commits, faults, other>>

Queries ==
  [scopeType : {UndefS, "topic", "user"}, scopeId : {UndefS, "a"},
   currentGoal : {UndefT, <<"API", " ", "design">>}, topK : {<<>>, <<0>>, <<1>>}]

SearchCall ==
  /\ call.kind = "none"
  /\ \E query \in Queries :
       call' = [kind |-> "search", intent |-> NoIntent, query |-> query,
                result |-> Search(disk, query)]
  /\ UNCHANGED <<disk, diskTmp, diskBak, dirs, bakFiles, tmpFiles, now, commits, faults, other>>

NextQuery == QueryExecute \/ Return \/ ScanCall \/ SearchCall

SpecQuery == Init /\ [][NextQuery]_vars

\* ------------------------------------------------------ validation
\* a record whose summary names the first record of topic a
RecRef == [RecOk EXCEPT !.summary = <<"see", " ", IdStr(RefId)>>]

RefIntents(rs) ==
  {[NoIntent EXCEPT !.action = "create", !.sourceRef = p, !.content = "A", !.record = r] :
     p \in {DocA, DocR}, r \in {RecOk, RecRef}}
  \cup {i \in EnvIntents(rs) : i.action \in {"deprecate", "delete"}}

RefExecute ==
  /\ call.kind = "none"
  /\ commits < MaxRefCommits
  /\ \E intent \in RefIntents(records) :
       \E r \in {Execute(S, intent, now, 0)} : Apply(r, intent)

ValidateCall ==
  /\ call.kind = "none"
  /\ \E full \in BOOLEAN :
       call' = [kind |-> "validate", intent |-> NoIntent, options |-> [full |-> full],
                result |-> Validate(S, full)]
  /\ UNCHANGED <<disk, diskTmp, diskBak, dirs, bakFiles, tmpFiles, now, commits, faults, other>>

NextRefs == RefExecute \/ Return \/ ValidateCall

SpecRefs == Init /\ [][NextRefs]_vars

\* ------------------------------------------------- failing renames
\* the rename of the commit phase that throws (0: none); a transaction
\* stages at most the document and the three index files
RenameFaults == 0..(Cardinality(IdxFiles) + 1)

RenameExecute ==
  /\ call.kind = "none"
  /\ commits < MaxCommits
  /\ \E intent \in EnvIntents(records), k \in RenameFaults :
       \E r \in {Execute(S, intent, now, k)} :
          /\ disk' = r.s.disk
          /\ diskTmp' = r.s.diskTmp
          /\ diskBak' = r.s.diskBak
          /\ dirs' = r.s.dirs
          /\ bakFiles' = r.s.bakFiles
          /\ tmpFiles' = r.s.tmpFiles
          /\ commits' = IF r.result.success THEN commits + 1 ELSE commits
          /\ call' = [kind |-> "execute", intent |-> intent, result |-> r.result,
                      renameFail |-> k]
          /\ UNCHANGED <<now, faults, other>>

NextRename == RenameExecute \/ Return

SpecRename == Init /\ [][NextRename]_vars

\* ---------------------------------------------------- status patches
\* creates, deprecations, deletes, and updates whose patch carries a status
StatusIntents(rs) ==
  {[NoIntent EXCEPT !.action = "update", !.recordId = id, !.record = [status |-> st]] :
     id \in Ids(rs), st \in STATUS_VALUES}
  \cup {i \in EnvIntents(rs) : i.action \in {"create", "deprecate", "delete"}}

StatusExecute ==
  /\ call.kind = "none"
  /\ commits < MaxStatusCommits
  /\ \E intent \in StatusIntents(records) :
       \E r \in {Execute(S, intent, now, 0)} : Apply(r, intent)

\* the caller makes its next call with the result of the previous one in hand
StatusExecuteNext ==
  /\ call.kind = "execute"
  /\ commits < MaxStatusCommits
  /\ \E intent \in StatusIntents(records) :
       \E r \in {Execute(S, intent, now, 0)} : Apply(r, intent)

NextStatus == StatusExecute \/ StatusExecuteNext \/ Return

SpecStatus == Init /\ [][NextStatus]_vars

\* ------------------------------------------- outside interventions
\* someone edits a document with a text editor
ExternalEdit ==
  /\ call.kind = "none"
  /\ faults < MaxFaults
  /\ \E p \in Paths :
       /\ Exists(disk, p)
       /\ disk' = [disk EXCEPT ![p] = <<"X">>]
  /\ faults' = faults + 1
  /\ UNCHANGED <<diskTmp, diskBak, dirs, bakFiles, tmpFiles, now, commits, call, other>>

\* someone removes a document, or the policy document
ExternalDelete ==
  /\ call.kind = "none"
  /\ faults < MaxFaults
  /\ \E p \in Paths \cup {PolicyFile} :
       /\ Exists(disk, p)
       /\ disk' = [disk EXCEPT ![p] = Absent]
  /\ faults' = faults + 1
  /\ UNCHANGED <<diskTmp, diskBak, dirs, bakFiles, tmpFiles, now, commits, call, other>>

\* someone damages manifest.json: it no longer parses
CorruptManifest ==
  /\ call.kind = "none"
  /\ faults < MaxFaults
  /\ disk[ManifestFile] # <<Garbage>>
  /\ disk' = [disk EXCEPT ![ManifestFile] = <<Garbage>>]
  /\ faults' = faults + 1
  /\ UNCHANGED <<diskTmp, diskBak, dirs, bakFiles, tmpFiles, now, commits, call, other>>

\* boot(brainRoot)
BootCall ==
  /\ call.kind = "none"
  /\ call' = [kind |-> "boot", intent |-> NoIntent, result |-> Boot(disk)]
  /\ UNCHANGED <<disk, diskTmp, diskBak, dirs, bakFiles, tmpFiles, now, commits, faults, other>>

NextDrift ==
  EnvExecute \/ Return \/ ExternalEdit \/ ExternalDelete \/ CorruptManifest \/ BootCall

SpecDrift == Init /\ [][NextDrift]_vars

\* ------------------------------------------------------------ claims
\* the step is an execute call: the caller had no call outstanding and now
\* holds the result of one
ExecStep == call.kind = "none" /\ call'.kind = "execute"

NoIndexTmp(store) == \A f \in IdxFiles : store[f] = Absent

\* C1: failure atomicity.  Every execute call that returns success=false
\* leaves records.jsonl, manifest.json, records_digest.txt and every
\* document with exactly the contents they had before the call.
C1_FailureAtomicity ==
  [][(ExecStep /\ ~call'.result.success) => disk' = disk]_vars

\* an update of an unknown recordId failed at records staging after the
\* existing target document had been backed up and a .tmp staged for it
C1_Witness ==
  /\ call.kind = "execute"
  /\ ~call.result.success
  /\ call.result.step = "5"
  /\ call.intent.action = "update"
  /\ call.intent.content = "B"
  /\ call.intent.sourceRef = DocA
  /\ disk[DocA] # Absent
  /\ disk[DocA] # <<"B">>

\* C2: invariant 2.  After every successful commit, every record with a
\* non-empty sourceRef has a manifest entry for that path whose hash equals
\* the record's contentHash, and the document on disk at that path hashes to
\* the same value.
C2_RecordManifestDocumentAgree ==
  commits > 0 =>
    \A i \in 1..Len(records) :
      records[i].sourceRef # "" =>
        /\ \E j \in 1..Len(manifest.files) :
             /\ manifest.files[j].path = records[i].sourceRef
             /\ manifest.files[j].hash = records[i].contentHash
        /\ disk[records[i].sourceRef] # Absent
        /\ <<"sha256:", disk[records[i].sourceRef][1]>> = records[i].contentHash

\* C3: after any sequence of BWT operations the recordId values in
\* records.jsonl are pairwise distinct.
C3_UniqueRecordIds ==
  \A i, j \in 1..Len(records) : i # j => records[i].recordId # records[j].recordId

\* an update that would have given a record the id of another one was
\* rejected by pre-commit validation
C3_Witness ==
  /\ call.kind = "execute"
  /\ call.intent.action = "update"
  /\ "recordId" \in DOMAIN call.intent.record
  /\ call.intent.record.recordId # call.intent.recordId
  /\ call.intent.record.recordId \in {records[i].recordId : i \in 1..Len(records)}
  /\ call.result.step = "8"
  /\ Len(records) = 2

RECURSIVE SplitLines(_, _)
\* the lines of a text file: the pieces between newlines (acc is the line
\* being read); a final newline ends the last line
SplitLines(text, acc) ==
  IF text = <<>> THEN (IF acc = <<>> THEN <<>> ELSE <<acc>>)
  ELSE IF Head(text) = NL THEN <<acc>> \o SplitLines(Tail(text), <<>>)
  ELSE SplitLines(Tail(text), Append(acc, Head(text)))

DigestLineOf(r) ==
  <<ToString(r.recordId), " | ">> \o r.title \o <<" | ">> \o r.summary \o <<" | ">>
    \o JoinTokens(r.tags, ",") \o <<" | ", r.status>>

\* C4: invariant 3.  After every successful commit records_digest.txt
\* consists of the three header lines followed by exactly one line per record
\* of records.jsonl, in the same order, each line being the
\* "recordId | title | summary | tags | status" rendering of that record.
C4_DigestIsProjection ==
  commits > 0 =>
    SplitLines(digest, <<>>) =
      <<<<H1>>, <<H2>>, <<H3>>>> \o [i \in 1..Len(records) |-> DigestLineOf(records[i])]

\* the record the call is about: the first one carrying the intent's recordId
Target(intent) == records[FindIndex(records, intent.recordId)]

Known(intent) == FindIndex(records, intent.recordId) > 0

Inv4(r) ==
  /\ r.status = "deprecated" => r.replacedBy # NullT
  /\ r.replacedBy = <<"obsolete">> => r.deprecationReason \notin {NullT, UndefT, <<>>}

\* the status, replacedBy and deprecationReason the intent asks the target
\* record to end with
Asked(intent) ==
  IF intent.action = "deprecate"
  THEN [status |-> "deprecated", replacedBy |-> intent.replacedBy,
        deprecationReason |-> intent.deprecationReason]
  ELSE [k \in {"status", "replacedBy", "deprecationReason"} |->
          IF intent.record # NoRecord /\ k \in DOMAIN intent.record
          THEN intent.record[k] ELSE Target(intent)[k]]

WouldViolate(intent) ==
  /\ intent.action \in {"deprecate", "update"}
  /\ Known(intent)
  /\ ~Inv4(Asked(intent))

\* C5: invariant 4.  After every successful commit every deprecated record
\* has a replacedBy that is not null and every record replaced by "obsolete"
\* has a non-empty deprecationReason; a deprecate or update that would break
\* this fails and leaves every file of the store as it was.
C5_DeprecationRule ==
  [][ExecStep =>
       /\ call'.result.success => \A i \in 1..Len(records') : Inv4(records'[i])
       /\ WouldViolate(call'.intent) => ~call'.result.success /\ disk' = disk]_vars

\* a deprecate with replacedBy null on an existing record was rejected by
\* pre-commit validation
C5_Witness ==
  /\ call.kind = "execute"
  /\ call.intent.action = "deprecate"
  /\ call.intent.replacedBy = NullT
  /\ call.intent.recordId \in Ids(records)
  /\ ~call.result.success
  /\ call.result.step = "8"

C7_ResidueBlocks ==
  [][(ExecStep /\ ~NoIndexTmp(diskTmp)) =>
       /\ ~call'.result.success
       /\ call'.result.step = "0"
       /\ disk' = disk /\ diskTmp' = diskTmp /\ diskBak' = diskBak /\ dirs' = dirs]_vars

\* a well-formed create into a folder that does not exist yet was refused
\* for residue, and the folder still does not exist
C7_Witness ==
  /\ call.kind = "execute"
  /\ call.intent.action = "create"
  /\ call.intent.record = RecOk
  /\ call.intent.sourceRef = DocA
  /\ call.result.step = "0"
  /\ ~NoIndexTmp(diskTmp)
  /\ Dirname(DocA) \notin dirs

\* C8: a successful create appends exactly one record: its recordId is the
\* minted id returned to the caller, status active, replacedBy and
\* deprecationReason null, sourceRef the intent's, contentHash the SHA-256 of
\* the intent content (the empty string included, and whatever recordId,
\* status or contentHash intent.record carries); the document at sourceRef
\* then holds that content and the manifest entry added for sourceRef has the
\* record's contentHash.
C8_CreateAppends ==
  [][(ExecStep /\ call'.result.success /\ call'.intent.action = "create") =>
       LET intent == call'.intent
           r == records'[Len(records')]
           e == manifest'.files[Len(manifest'.files)]
       IN /\ Len(records') = Len(records) + 1
          /\ SubSeq(records', 1, Len(records)) = records
          /\ r.recordId = call'.result.recordId
          /\ r.recordId = GenerateRecordId(intent.record.scopeType, intent.record.scopeId, records, now)
          /\ r.status = "active"
          /\ r.replacedBy = NullT
          /\ r.deprecationReason = NullT
          /\ r.sourceRef = intent.sourceRef
          /\ r.contentHash = <<"sha256:", intent.content>>
          /\ disk'[intent.sourceRef] = <<intent.content>>
          /\ Len(manifest'.files) = Len(manifest.files) + 1
          /\ SubSeq(manifest'.files, 1, Len(manifest.files)) = manifest.files
          /\ e.path = intent.sourceRef
          /\ e.hash = r.contentHash]_vars

\* a create with empty content whose intent.record carried a recordId, a
\* status and a contentHash of its own succeeded
C8_Witness ==
  /\ call.kind = "execute"
  /\ call.result.success
  /\ call.intent.action = "create"
  /\ call.intent.content = ""
  /\ call.intent.record = RecJunk

\* C9: after a successful update that carries content the document at the
\* record's sourceRef holds exactly that content and the record's
\* contentHash is its SHA-256; after one that carries no content the
\* contentHash is unchanged; either way updatedAt is the engine clock.
C9_UpdateRefreshes ==
  [][(ExecStep /\ call'.result.success /\ call'.intent.action = "update") =>
       LET intent == call'.intent
           i == FindIndex(records, intent.recordId)
           r == records'[i]
       IN /\ r.updatedAt = now
          /\ intent.content # UndefS =>
               /\ r.contentHash = <<"sha256:", intent.content>>
               /\ r.sourceRef # "" => disk'[r.sourceRef] = <<intent.content>>
          /\ intent.content = UndefS => r.contentHash = records[i].contentHash]_vars

\* C10: after a successful delete {recordId} the record is gone from
\* records.jsonl, the document its sourceRef pointed to no longer exists
\* (when it existed before) and the manifest has no entry for that path.
C10_DeleteRemoves ==
  [][(ExecStep /\ call'.result.success /\ call'.intent.action = "delete") =>
       LET intent == call'.intent
           r == Target(intent)
       IN /\ intent.recordId \notin Ids(records')
          /\ r.sourceRef # "" =>
               /\ disk'[r.sourceRef] = Absent
               /\ \A j \in 1..Len(manifest'.files) : manifest'.files[j].path # r.sourceRef]_vars

\* checkFolderAutoCreate: folders are created automatically under 30_topics/ only
AutoAllowed(sourceRef) == sourceRef = DocA

\* C11: the folder auto-create gate.  A create whose document parent folder
\* does not exist yet creates it only when sourceRef begins with 30_topics/;
\* for any other sourceRef the create fails at directory preparation (step 3)
\* and no folder is created.
C11_FolderGate ==
  [][(/\ ExecStep
      /\ NoIndexTmp(diskTmp)
      /\ call'.intent.action = "create"
      /\ call'.intent.record = RecOk
      /\ call'.intent.content = "A"
      /\ Dirname(call'.intent.sourceRef) \notin dirs) =>
       IF AutoAllowed(call'.intent.sourceRef)
       THEN Dirname(call'.intent.sourceRef) \in dirs'
       ELSE /\ ~call'.result.success
            /\ call'.result.step = "3"
            /\ dirs' = dirs]_vars

\* all tags of a record carry the axis prefix domain/ or intent/
TagsOk(tags) == \A i \in 1..Len(tags) : tags[i] \in {"domain/x", "intent/y"}

\* C12: invariant 6.  After every successful commit every tag of every
\* record begins with domain/ or intent/; a create or update whose tags hold
\* any other value is rejected by pre-commit validation and leaves the store
\* unchanged.
C12_TagAxes ==
  [][ExecStep =>
       /\ call'.result.success => \A i \in 1..Len(records') : TagsOk(records'[i].tags)
       /\ (/\ call'.intent.action \in {"create", "update"}
           /\ call'.intent.record # NoRecord
           /\ "tags" \in DOMAIN call'.intent.record
           /\ ~TagsOk(call'.intent.record.tags)
           /\ NoIndexTmp(diskTmp)) =>
            /\ ~call'.result.success /\ call'.result.step = "8" /\ disk' = disk]_vars

\* the document at p is tracked by the manifest and no longer has the hash
\* the manifest recorded
Drifted(p) ==
  /\ SafeReadJson(disk, ManifestFile).ok
  /\ Exists(disk, p)
  /\ \E j \in 1..Len(manifest.files) :
       /\ manifest.files[j].path = p
       /\ manifest.files[j].hash # <<"sha256:", disk[p][1]>>

\* C13: drift is never fatal.  After a manifest-tracked document has been
\* modified outside the engine, a valid write that targets a different
\* document (here: a create of a document that does not exist yet) still
\* commits.
C13_DriftNotFatal ==
  [][(/\ ExecStep
      /\ call'.intent \in EnvIntents(records)
      /\ call'.intent.action = "create"
      /\ ~Exists(disk, call'.intent.sourceRef)
      /\ \E p \in Paths : p # call'.intent.sourceRef /\ Drifted(p)) =>
       call'.result.success]_vars

ResidueFailure(result) == ~result.success /\ result.step = "0"

\* C14: overlapping transactions are detected.  Whenever two transactions
\* on the same root overlap in time, at least one of them fails at the
\* residue check, so two overlapping transactions never both commit.
C14_OverlapDetected ==
  (~other.active /\ other.overlapped) =>
    ResidueFailure(other.result) \/ ResidueFailure(other.during)

Crashed(label) == call.kind = "crash" /\ call.result.step = label

RejectedAtResidue(intent) ==
  \E r \in {Execute(S, intent, now, 0)} :
    /\ ResidueFailure(r.result)
    /\ r.s.disk = disk
    /\ r.s.diskTmp = diskTmp

\* C15: a stop between two renames of the commit phase is detected.  When
\* the process has stopped after at least one and before the last rename,
\* at least one .tmp file remains in 90_index/, and every execute call made
\* next fails at the residue check and writes nothing.
C15_PartialCommitBlocks ==
  Crashed("between") =>
    /\ ~NoIndexTmp(diskTmp)
    /\ \A intent \in Intents(records) \cup EnvIntents(records) : RejectedAtResidue(intent)

\* an update with new content stopped after the rename of the document:
\* the document is the new one, the three index files are still staged
C15_Witness ==
  /\ Crashed("between")
  /\ call.intent.action = "update"
  /\ diskTmp[call.intent.sourceRef] = Absent
  /\ disk[call.intent.sourceRef] = <<call.intent.content>>
  /\ \A f \in IdxFiles : diskTmp[f] # Absent

CrashStep == call.kind = "none" /\ call'.kind = "crash"

BootReports(store) == \E b \in {Boot(store)} : b.mismatches # <<>> \/ b.warnings # 0

\* the index files and every document a record or a manifest entry refers to
\* are as they were before the step
OlderState ==
  /\ \A f \in IdxFiles : disk'[f] = disk[f]
  /\ \A i \in 1..Len(records) : disk'[records[i].sourceRef] = disk[records[i].sourceRef]
  /\ \A i \in 1..Len(manifest.files) :
       disk'[manifest.files[i].path] = disk[manifest.files[i].path]

\* C16: a stop during the commit phase is either invisible or reported.
\* At every stop point of the commit phase (after validation, after each
\* rename, before the backups are removed) records, manifest, digest and the
\* documents they reference are all as before the transaction, or the next boot reports a mismatch or
\* a warning.
C16_MidCommitVisible ==
  [][(CrashStep /\ call'.result.step \in {"validated", "between", "renamed"}) =>
       (OlderState \/ BootReports(disk'))]_vars

\* C17: an interrupted transaction blocks the next one.  After a stop at any
\* point from the creation of the backups on and before the call has
\* finished, every execute call made next fails at the residue check.
C17_InterruptBlocks ==
  [][CrashStep => \A intent \in EnvIntents(records') :
                    ResidueFailure(Execute(S', intent, now', 0).result)]_vars

\* what the digest says about a record: its id, title, summary, tags, status
Projection(r) ==
  [recordId |-> <<IdStr(r.recordId)>>, title |-> r.title, summary |-> r.summary,
   tags |-> [j \in 1..Len(r.tags) |-> <<r.tags[j]>>], status |-> <<r.status>>]

\* C18: digest round trip.  Whatever records the engine has committed, the
\* digest loader returns one entry per record of records.jsonl, in the same
\* order, holding exactly that record's recordId, title, summary, tags and
\* status.
C18_DigestRoundTrip ==
  call.kind = "load" =>
    call.result = [i \in 1..Len(records) |-> Projection(records[i])]

NoBak(store) == \A f \in FileIds : store[f] = Absent

\* C19: no backup outlives the call.  When an execute call returns, whether
\* it committed or rolled back, no .bak file exists, neither in 90_index/
\* nor next to a document.
C19_NoBakAfterReturn ==
  [][ExecStep => NoBak(diskBak')]_vars

\* a delete that committed and whose document exists: the call backed up the
\* three index files and the document
C19_Witness ==
  /\ call.kind = "execute"
  /\ call.intent.action = "delete"
  /\ call.result.success
  /\ call.intent.sourceRef \in Paths
  /\ Exists(disk, call.intent.sourceRef)
  /\ NoBak(diskBak)

\* the reason boot should give for a manifest entry, "" when the file matches
DriftOf(e) ==
  IF disk[e.path] = Absent THEN "missing"
  ELSE IF <<"sha256:", disk[e.path][1]>> # e.hash THEN "hash mismatch"
  ELSE ""

\* among the entries es, those about path p with reason why
About(es, p, why) == {i \in 1..Len(es) : es[i].path = p /\ es[i].reason = why}

\* C20: boot never fails on drift.  Whenever the policy document exists and
\* manifest.json parses, boot returns success, and its mismatches list holds
\* exactly one entry per manifest entry whose file is missing (reason
\* missing) or whose SHA-256 differs from the manifest hash (reason hash
\* mismatch), and none for an entry whose file matches.
C20_BootReportsDrift ==
  (call.kind = "boot" /\ disk[PolicyFile] # Absent /\ disk[ManifestFile] # <<Garbage>>) =>
    /\ call.result.success
    /\ \A p \in FileIds, why \in {"missing", "hash mismatch"} :
         Cardinality(About(call.result.mismatches, p, why)) =
           Cardinality({i \in 1..Len(manifest.files) :
                          manifest.files[i].path = p /\ DriftOf(manifest.files[i]) = why})
    /\ \A j \in 1..Len(call.result.mismatches) :
         call.result.mismatches[j].reason \in {"missing", "hash mismatch"}

\* boot on a store of two documents, one of them edited by hand: success,
\* one hash mismatch for the edited one, nothing for the other
C20_Witness ==
  /\ call.kind = "boot"
  /\ call.result.success
  /\ Len(manifest.files) = 2
  /\ Len(call.result.mismatches) = 1
  /\ call.result.mismatches[1].reason = "hash mismatch"
  /\ \E i \in 1..2 : DriftOf(manifest.files[i]) = ""

\* the four preconditions of a physical delete, as the gate's caller reads them
PreStatus == call.record.status = "deprecated"

PreSession ==
  /\ call.options.currentSessionStart # NoTime
  /\ call.record.updatedAt # NoTime
  /\ call.record.updatedAt < call.options.currentSessionStart

PreReplacedBy == call.record.replacedBy # NullT

PreUser == call.options.userConfirmed = TRUE

\* C21: the delete gate.  checkDeleteGate allows the deletion if and only if
\* the record is deprecated, its updatedAt is strictly earlier than the
\* currentSessionStart supplied, its replacedBy is not null and userConfirmed
\* is true; without a currentSessionStart it denies.
C21_DeleteGate ==
  call.kind = "gate" =>
    /\ call.result.allowed <=> (PreStatus /\ PreSession /\ PreReplacedBy /\ PreUser)
    /\ call.options.currentSessionStart = NoTime => ~call.result.allowed

InUnmet(labels) == \E i \in 1..Len(call.result.unmet) : call.result.unmet[i] \in labels

\* C22: the gate names every unmet precondition.  When checkDeleteGate
\* denies, its unmet list has an entry for each of the four preconditions
\* (status, session elapsed, replacedBy, user confirmation) that does not
\* hold, whatever the combination.
C22_AllUnmetListed ==
  (call.kind = "gate" /\ ~call.result.allowed) =>
    /\ ~PreStatus => InUnmet({UnmetStatus})
    /\ ~PreSession => InUnmet({UnmetSameSession, UnmetNoSession})
    /\ ~TruthyT(call.record.replacedBy) => InUnmet({UnmetReplacedBy})
    /\ ~PreUser => InUnmet({UnmetUser})

GateAllows(record, css, uc) ==
  CheckDeleteGate(record, [currentSessionStart |-> css, userConfirmed |-> uc]).allowed

C24_TransitionTable ==
  call.kind = "transition" =>
    IF <<call.from, call.to>> \in {<<"active", "deprecated">>, <<"active", "archived">>,
                                   <<"deprecated", "active">>}
    THEN call.result.throws = "" /\ call.result.allowed
    ELSE call.result.throws = "" /\ ~call.result.allowed /\ call.result.reason # NoReason

\* C25: contamination is advisory and surfaced.  A scan reports exactly the
\* active records of type rule or decision whose sourceType is not
\* user_confirmed (the engine stored them without rejecting the write), and
\* no other record.
C25_ContaminationSurfaced ==
  call.kind = "scan" =>
    {call.result.contaminated[k].recordId : k \in 1..Len(call.result.contaminated)} =
      {records[i].recordId : i \in {j \in 1..Len(records) :
          /\ records[j].status = "active"
          /\ records[j].type \in {"rule", "decision"}
          /\ records[j].sourceType # "user_confirmed"}}

\* C25 as the code has it: a scan reports exactly the active records of type
\* rule or decision whose sourceType is inference or candidate; a rule or
\* decision with any other sourceType and a record of another type are never
\* reported.
C25_ContaminationBanned ==
  call.kind = "scan" =>
    /\ {call.result.contaminated[k].recordId : k \in 1..Len(call.result.contaminated)} =
         {records[i].recordId : i \in {j \in 1..Len(records) :
            /\ records[j].status = "active"
            /\ records[j].type \in {"rule", "decision"}
            /\ records[j].sourceType \in {"inference", "candidate"}}}
    /\ call.result.clean <=> call.result.contaminated = <<>>

\* a scan of a store holding a rule from a candidate and a rule from a chat
\* log, both written by the engine and both active: only the first is reported
C25_Witness ==
  /\ call.kind = "scan"
  /\ Len(call.result.contaminated) = 1
  /\ call.result.contaminated[1].sourceType = "candidate"
  /\ \E i \in 1..Len(records) :
       /\ records[i].status = "active"
       /\ records[i].type = "rule"
       /\ records[i].sourceType = "chat_log"

\* the records of records.jsonl a candidate of the search stands for
RecordsOf(candidate) ==
  {i \in 1..Len(records) : <<IdStr(records[i].recordId)>> = candidate.digest.recordId}

\* C26: the scope filter.  A search with a scopeType returns only candidates
\* whose record has that scopeType, and with a scopeId as well only
\* candidates whose record has that scopeId.
C26_ScopeFilter ==
  (call.kind = "search" /\ Truthy(call.query.scopeType)) =>
    \A k \in 1..Len(call.result.candidates) :
      \E i \in RecordsOf(call.result.candidates[k]) :
        /\ records[i].scopeType = call.query.scopeType
        /\ Truthy(call.query.scopeId) => records[i].scopeId = call.query.scopeId

\* the active records of records.jsonl that belong to the scope of the query
ActiveInScope(query) ==
  {i \in 1..Len(records) :
     /\ records[i].status = "active"
     /\ Truthy(query.scopeType) => records[i].scopeType = query.scopeType
     /\ (Truthy(query.scopeType) /\ Truthy(query.scopeId)) => records[i].scopeId = query.scopeId}

\* C27: only active records are found.  Every candidate of a search is an
\* active record of records.jsonl, so a record that was deprecated or deleted
\* through the engine is not returned; every active record of the scope is
\* counted in total, and is a candidate when total does not exceed topK.
C27_ActiveOnly ==
  call.kind = "search" =>
    /\ \A k \in 1..Len(call.result.candidates) :
         /\ RecordsOf(call.result.candidates[k]) # {}
         /\ \A i \in RecordsOf(call.result.candidates[k]) : records[i].status = "active"
    /\ call.result.total >= Cardinality(ActiveInScope(call.query))
    /\ call.result.total <= Len(call.result.candidates) =>
         \A i \in ActiveInScope(call.query) :
           \E k \in 1..Len(call.result.candidates) : i \in RecordsOf(call.result.candidates[k])

\* the in-scope active digest lines of the query, scored
InScopeActive(query) ==
  Scored(ActiveOnly(ScopeFilter(LoadDigest(disk), query)), query.currentGoal)

\* C28: the topK limit.  A search returns at most topK candidates for every
\* topK the caller supplies (10 when it is omitted); no line left out scores
\* higher than a candidate; total is the number of in-scope active digest
\* lines, whatever topK and the goal are.
C28_TopK ==
  call.kind = "search" =>
    /\ Len(call.result.candidates) <=
         (IF call.query.topK = <<>> THEN DefaultTopK ELSE call.query.topK[1])
    /\ \A j \in 1..Len(InScopeActive(call.query)), k \in 1..Len(call.result.candidates) :
         InScopeActive(call.query)[j].score > call.result.candidates[k].score =>
           \E m \in 1..Len(call.result.candidates) :
             call.result.candidates[m] = InScopeActive(call.query)[j]
    /\ call.result.total =
         Search(disk, [call.query EXCEPT !.topK = <<>>, !.currentGoal = UndefT]).total

\* the numeric suffixes of the existing ids that share the prefix
Suffixes(prefix) ==
  {records[i].recordId[5] : i \in {j \in 1..Len(records) :
     Len(records[j].recordId) = 5 /\ SubSeq(records[j].recordId, 1, 4) = prefix}}

Largest(ns) == IF ns = {} THEN 0 ELSE CHOOSE n \in ns : \A m \in ns : m <= n

MintedPrefix(intent, t) ==
  <<"rec", SCOPE_ABBREV(intent.record.scopeType), intent.record.scopeId, DateStr(t)>>

Mentions(rec, id) ==
  \/ \E k \in 1..Len(rec.summary) : rec.summary[k] = IdStr(id)
  \/ (rec.sourceRef = DocR /\ id = RefId)

RefWarning(activeRec, depRec) ==
  Msg("active refers to deprecated", IdStr(activeRec.recordId), IdStr(depRec.recordId))

Warned(w) == \E k \in 1..Len(call.result.warnings) : call.result.warnings[k] = w

\* C30: back-references to deprecated records.  Validation in full mode
\* warns, for every active record whose summary or sourceRef contains the
\* recordId of a deprecated record, that the active record refers to the
\* deprecated one; it gives no such warning about an active record whose
\* summary and sourceRef contain no deprecated recordId.
C30_BackReferences ==
  (call.kind = "validate" /\ call.options.full) =>
    /\ \A i, j \in 1..Len(records) :
         (records[i].status = "active" /\ records[j].status = "deprecated"
            /\ Mentions(records[i], records[j].recordId)) =>
           Warned(RefWarning(records[i], records[j]))
    /\ \A k \in 1..Len(call.result.warnings) :
         call.result.warnings[k].kind = "active refers to deprecated" =>
           \E i, j \in 1..Len(records) :
              /\ records[i].status = "active"
              /\ records[j].status = "deprecated"
              /\ Mentions(records[i], records[j].recordId)
              /\ call.result.warnings[k] = RefWarning(records[i], records[j])

\* A was created, a record naming A in its summary was created, A was
\* deprecated: the validation warns that the record refers to A
C30_Witness ==
  /\ call.kind = "validate"
  /\ call.options.full
  /\ \E i, j \in 1..Len(records) :
       /\ records[j].status = "deprecated"
       /\ records[i].status = "active"
       /\ records[i].summary = RecRef.summary
       /\ records[i].sourceRef = DocA
       /\ Warned(RefWarning(records[i], records[j]))

\* C31: recordId is immutable.  A successful update or deprecate leaves every
\* record under the recordId it had before the call.
C31_RecordIdImmutable ==
  [][(ExecStep /\ call'.result.success /\ call'.intent.action \in {"update", "deprecate"}) =>
       /\ Len(records') = Len(records)
       /\ \A i \in 1..Len(records) : records'[i].recordId = records[i].recordId]_vars

\* C32: order of the steps.  Intent validation comes first: a malformed
\* intent is rejected at step 1 whatever the state of the index folder, and
\* a call that fails at intent validation or at the residue check has run no
\* later step (no folder was created, no file staged or backed up).
C32_StepOrder ==
  [][ExecStep =>
       /\ ~ValidateIntent(call'.intent) =>
            (~call'.result.success /\ call'.result.step = "1")
       /\ call'.result.step \in {"0", "1"} =>
            (dirs' = dirs /\ disk' = disk /\ diskTmp' = diskTmp /\ diskBak' = diskBak)]_vars

\* the intent carries a value outside the enums of record.scopeType,
\* record.type or record.sourceType
OutsideEnums(intent) ==
  /\ intent.action = "create"
  /\ intent.record # NoRecord
  /\ \/ intent.record.scopeType \notin SCOPE_TYPES
     \/ intent.record.type \notin RECORD_TYPES
     \/ intent.record.sourceType \notin SOURCE_TYPES

\* C33: malformed intents.  An intent that is structurally wrong, lacks a
\* required field or carries a value outside the enums is rejected at step 1
\* and no file, .tmp or .bak is written.
C33_IntentRejectedFirst ==
  [][(ExecStep /\ (~ValidateIntent(call'.intent) \/ OutsideEnums(call'.intent))) =>
       /\ ~call'.result.success
       /\ call'.result.step = "1"
       /\ disk' = disk /\ diskTmp' = diskTmp /\ diskBak' = diskBak]_vars

AllowedStep(from, to) ==
  \/ from = to
  \/ from = "active" /\ to \in {"deprecated", "archived"}
  \/ from = "deprecated" /\ to = "active"

\* C35: status transitions.  A committed operation changes the status of a
\* record only along active -> deprecated, active -> archived or
\* deprecated -> active; the status of an archived record never changes.
C35_StatusTransitions ==
  [][(ExecStep /\ call'.result.success) =>
       \A i \in 1..Len(records), j \in 1..Len(records') :
          records[i].recordId = records'[j].recordId =>
            AllowedStep(records[i].status, records'[j].status)]_vars

\* the records of rs other than the one with the given id, in order
RECURSIVE Others(_, _)
Others(rs, id) ==
  IF rs = <<>> THEN <<>>
  ELSE (IF Head(rs).recordId = id THEN <<>> ELSE <<Head(rs)>>) \o Others(Tail(rs), id)

PositionOf(rs, id) == CHOOSE i \in 1..Len(rs) : rs[i].recordId = id

\* C36: one record per operation.  A successful create appends the new
\* record at the end; update and deprecate change the target at its position;
\* delete removes the target; every other record keeps all its field values
\* and the order of the remaining records is preserved.
C36_OneRecordChanged ==
  [][(ExecStep /\ call'.result.success) =>
       CASE call'.intent.action = "create" ->
              /\ Len(records') = Len(records) + 1
              /\ SubSeq(records', 1, Len(records)) = records
              /\ records'[Len(records')].recordId = call'.result.recordId
         [] call'.intent.action \in {"update", "deprecate"} ->
              /\ Len(records') = Len(records)
              /\ \A i \in 1..Len(records) :
                   i # PositionOf(records, call'.intent.recordId) => records'[i] = records[i]
         [] call'.intent.action = "delete" ->
              records' = Others(records, call'.intent.recordId)
         [] OTHER -> FALSE]_vars

\* the first of two records was deleted: the second one is all that is left
C36_Witness ==
  /\ call.kind = "execute"
  /\ call.intent.action = "delete"
  /\ call.result.success
  /\ call.intent.recordId = RefId
  /\ Len(records) = 1
  /\ records[1].recordId = <<"rec", "topic", "a", 0, 2>>

\* C37: the manifest after a commit.  After a successful operation every
\* manifest entry names an existing file whose hash is the entry's hash, and
\* a boot run at once reports no mismatch.
C37_ManifestMatchesFiles ==
  [][(ExecStep /\ call'.result.success) =>
       /\ \A i \in 1..Len(manifest'.files) :
            /\ disk'[manifest'.files[i].path] # Absent
            /\ CalculateHash(disk'[manifest'.files[i].path][1]) = manifest'.files[i].hash
       /\ Boot(disk').success
       /\ Boot(disk').mismatches = <<>>]_vars

\* an update with new content was committed: the entry of the document
\* carries the hash of the new content
C37_Witness ==
  /\ call.kind = "execute"
  /\ call.intent.action = "update"
  /\ call.intent.content = "B"
  /\ call.intent.sourceRef = DocU
  /\ call.result.success
  /\ Len(manifest.files) = 1
  /\ manifest.files[1].path = DocU
  /\ manifest.files[1].hash = CalculateHashFromString("B")

\* C38: paths of the manifest.  No two entries of the committed manifest
\* have the same path.
C38_ManifestPathsUnique ==
  \A i, j \in 1..Len(manifest.files) :
     manifest.files[i].path = manifest.files[j].path => i = j

\* C39: record ids are not reused.  An id that was given to a record is not
\* given to another record after the first one has been deleted: the create
\* that follows the delete of a record mints another id than the deleted one.
C39_IdsNeverReused ==
  [][(/\ call.kind = "execute"
      /\ call.intent.action = "delete"
      /\ call.result.success
      /\ call'.kind = "execute"
      /\ call'.intent.action = "create"
      /\ call'.result.success) =>
       call'.result.recordId # call.intent.recordId]_vars

\* the second engine ends its call in this step
OtherReturns == other.active /\ ~other'.active

\* the first engine has renamed all its staged files during the overlap
FirstCommitted ==
  \/ call.kind = "committing"
  \/ (other.overlapped /\ other.during.success)

\* C40: rollback under overlap.  When the transaction of one engine fails
\* while the other engine's transaction has committed its index files, the
\* rollback leaves records.jsonl, manifest.json and the digest as committed.
C40_RollbackKeepsCommitted ==
  [][(OtherReturns /\ ~other'.result.success /\ FirstCommitted) =>
       \A f \in IdxFiles : disk'[f] = disk[f]]_vars

====
